---- MODULE Spec2Model ----
(***************************************************************************)
(* Model of the opsy agent orchestration loop (Agent.Run), the tools it    *)
(* dispatches (exec tool, declarative tools that recurse into Run) and the *)
(* caller in cmd/main.go that reports the terminal status.                 *)
(*                                                                         *)
(* One goroutine runs the outermost Run; a declarative tool's Execute      *)
(* calls Run again on the same goroutine, so the call stack of Runs is a   *)
(* sequence of frames and only its last frame takes steps.  The three      *)
(* channels are unbuffered: a send is one hand-off step that appends to    *)
(* the log of what the consumer received.                                  *)
(***************************************************************************)
EXTENDS Integers, Sequences, FiniteSets, Bags, TLC

VARIABLES
    toolDir,    \* the tool directory: what each candidate file name holds
    tmTools,    \* ToolManager.tools, the map from tool name to tool
    loader,     \* position, locals and last return value of LoadTools
    lastLoad,   \* the directory and tool names of the last LoadTools that
                \* returned nil, and whether the one before read the same
    reader,     \* a goroutine that reads the registry: whether it holds
                \* the map GetTools returned (and got it after a LoadTools
                \* had returned nil), and what it last read
    cancelled,  \* whether the context passed to the outermost Run is done
    request,    \* the *tool.RunOptions the caller passes to the outermost Run
    stack,      \* call stack of Run invocations, outermost first
    mainPc,     \* position of the goroutine of main that calls Run
    mainRet,    \* what the outermost Run returned to main
    statusLog,  \* values received from communication.Status, in order
    msgLog,     \* values received from communication.Messages, in order
    cmdLog,     \* values received from communication.Commands, in order
    apiCalls,   \* number of client.Messages.New calls made so far
    taskBlocks, \* number of content blocks the model has answered with
    topOutputs, \* outputs tool.Execute handed to the outermost Run, in order
    config,     \* config.ToolsConfiguration: the global and the exec timeout
    cwd,        \* the current directory of the process (os.Getwd)
    toolCall,   \* the last direct call of execTool.Execute, of
                \* ValidateDefinition or of tool.New: arguments and result
    other,      \* a second goroutine that calls Run on the same agent while
                \* it is not the one taking steps: its request, the stack of
                \* its Runs, its position and what its Run returned
    current,    \* which of the two goroutines is the one taking steps
    readers     \* the channels of the agent that a consumer goroutine drains

regVars == <<toolDir, tmTools, loader, lastLoad, reader>>
runVars == <<cancelled, request, stack, mainPc, mainRet, statusLog, msgLog,
             cmdLog, apiCalls, taskBlocks, topOutputs>>
sideVars == <<config, cwd, toolCall, other, current, readers>>
vars == <<toolDir, tmTools, loader, lastLoad, reader, cancelled, request, stack, mainPc, mainRet,
          statusLog, msgLog, cmdLog, apiCalls, taskBlocks, topOutputs, config, cwd, toolCall,
          other, current, readers>>

----------------------------------------------------------------------------
(* Bounds of the environment: the language model answers at most MaxTurns  *)
(* times per Run (its last answer asks for no tool) with at most MaxBlocks *)
(* content blocks per answer, and with at most MaxTaskBlocks content       *)
(* blocks over the whole task (nested Runs included).                      *)
MaxTurns == 2
MaxBlocks == 2
MaxTaskBlocks == 2
\* A working_directory input is a path of at most MaxPathLen characters.
MaxPathLen == 3

----------------------------------------------------------------------------
(* Constants of the program.                                               *)
ErrNoRunOptions == "no run options provided"
ErrNoTaskProvided == "no task provided"
ErrInvalidToolInputType == "invalid input type"
ErrAPI == "anthropic api error"
ErrCancelled == "context canceled"
NoErr == "nil"

\* The three channels of agent.Communication.
Channels == {"status", "messages", "commands"}

StatusRunning == "Running"
StatusFinished == "Finished"
StatusError == "Error"

ExecToolName == "exec"
\* A declarative tool loaded from a definition file (name = file base name).
GitToolName == "git"
UnknownToolName == "nope"

DisplayName(n) == IF n = ExecToolName THEN "Exec" ELSE "Git"

\* The task string main passes (os.Args[1]), the "task" input of a tool use
\* whose input is "ok", and the task tool.Execute renders from it.
TopTask == "task"
InputTask == "subtask"
ToolUserPrompt(task) == "tool: " \o task

----------------------------------------------------------------------------
(* What the language model can answer.  The input of a tool-use block is   *)
(* "bad" (not parseable as a JSON object), "nokey" (parses, but the key    *)
(* the tool requires is missing or not a string) or "ok".                  *)
(* Run parses the input before it looks at the name, and looks the name up *)
(* before the tool looks at the input, so one unparseable and one unknown  *)
(* block stand for all of them.                                            *)
ToolUse(n, i) == [kind |-> "tool_use", name |-> n, input |-> i, text |-> ""]

TextBlock == [kind |-> "text", name |-> "", input |-> "", text |-> "txt"]
ToolUseBlocks ==
    { ToolUse(ExecToolName, "bad"), ToolUse(UnknownToolName, "ok"),
      ToolUse(ExecToolName, "nokey"), ToolUse(ExecToolName, "ok"),
      ToolUse(GitToolName, "nokey"), ToolUse(GitToolName, "ok") }
Blocks == {TextBlock} \cup ToolUseBlocks

SeqsUpTo(S, n) == UNION {[1..k -> S] : k \in 0..n}

Responses == SeqsUpTo(Blocks, MaxBlocks)
FinalResponses == SeqsUpTo({TextBlock}, MaxBlocks)

IsToolUse(b) == b.kind = "tool_use"
NumToolUses(r) == Cardinality({i \in 1..Len(r) : IsToolUse(r[i])})

\* The answers the model can give to the n-th request of a Run when it has
\* answered with used content blocks so far.
ModelAnswers(n, used) ==
    {r \in (IF n = MaxTurns THEN FinalResponses ELSE Responses) :
        Len(r) <= MaxTaskBlocks - used}

----------------------------------------------------------------------------
(* What running a shell command can produce: cmd.CombinedOutput() with     *)
(* the exit code of cmd.ProcessState ("killed": -1 when the process was    *)
(* killed on timeout or never started).  "late" is the context expiring after the     *)
(* process has exited with 0 but before Wait collected it: Wait then       *)
(* returns the context's error with a successful ProcessState.             *)
ExecOutcomes ==
    { [kind |-> "ok",      exit |-> 0,  out |-> "out",  failed |-> FALSE],
      [kind |-> "exit",    exit |-> 1,  out |-> "fail", failed |-> TRUE],
      [kind |-> "killed",  exit |-> -1, out |-> "",     failed |-> TRUE],
      [kind |-> "late",    exit |-> 0,  out |-> "out",  failed |-> TRUE] }

\* exec.CommandContext: with a context that is already done the process is
\* not started (nil ProcessState, exit code -1, no output).
StartOutcomes(ctxDone) ==
    IF ctxDone THEN {o \in ExecOutcomes : o.kind = "killed"} ELSE ExecOutcomes

\* An optional value is a sequence of length 0 (nil) or 1.
None == <<>>
Some(x) == <<x>>

\* Variant: a failed command is reported without its executed-command record.
ExecExecute_NoRecordOnFailure(input, o) ==
    IF input # "ok"
    THEN [out |-> None, err |-> ErrInvalidToolInputType]
    ELSE [out |-> Some([tool |-> ExecToolName,
                        result |-> o.out,
                        isError |-> o.failed,
                        cmd |-> IF o.failed THEN None
                                ELSE Some([exit |-> o.exit, output |-> o.out])]),
          err |-> IF o.failed THEN o.kind ELSE NoErr]

\* Variant: the error flag is taken from the exit code.
ExecExecute_FlagFromExitCode(input, o) ==
    IF input # "ok"
    THEN [out |-> None, err |-> ErrInvalidToolInputType]
    ELSE [out |-> Some([tool |-> ExecToolName,
                        result |-> o.out,
                        isError |-> o.exit # 0,
                        cmd |-> Some([exit |-> o.exit, output |-> o.out])]),
          err |-> IF o.failed THEN o.kind ELSE NoErr]

\* execTool.Execute: (*Output, error) for a parsed input and a process outcome.
ExecExecute(input, o) ==
    IF input # "ok"
    THEN [out |-> None, err |-> ErrInvalidToolInputType]
    ELSE [out |-> Some([tool |-> ExecToolName,
                        result |-> o.out,
                        isError |-> o.failed,
                        cmd |-> Some([exit |-> o.exit, output |-> o.out])]),
          err |-> IF o.failed THEN o.kind ELSE NoErr]

\* Variant: the result of the nested run is not carried over.
ToolExecuteResult_DropsResult(name, runOutput, err) ==
    [out |-> Some([tool |-> DisplayName(name),
                   result |-> "",
                   isError |-> err # NoErr,
                   cmd |-> None]),
     err |-> err]

\* tool.Execute after the nested Run returned (runOutput, err).
ToolExecuteResult(name, runOutput, err) ==
    [out |-> Some([tool |-> DisplayName(name),
                   result |-> IF Len(runOutput) > 0
                              THEN runOutput[Len(runOutput)].result
                              ELSE "",
                   isError |-> err # NoErr,
                   cmd |-> None]),
     err |-> err]

----------------------------------------------------------------------------
(* Conversation turns (anthropic.MessageParam) and their content blocks.   *)
UserTextTurn(task) ==
    [role |-> "user", content |-> <<[kind |-> "text", text |-> task]>>]
AssistantTurn(resp) == [role |-> "assistant", content |-> resp]
UserResultsTurn(toolResults) == [role |-> "user", content |-> toolResults]

\* anthropic.NewToolResultBlock(block.ID, resultBlockContent, isError)
NewToolResultBlock(id, content, isError) ==
    [kind |-> "tool_result", id |-> id, content |-> content,
     isError |-> isError]

\* The block of a response as Run sees it, carrying the id the API gave it.
WithId(b, id) ==
    [kind |-> b.kind, name |-> b.name, input |-> b.input, text |-> b.text,
     id |-> id]

----------------------------------------------------------------------------
(* The tool registry (ToolManager).  The tool directory is a choice, for   *)
(* each candidate file name, of what is there: nothing, a valid            *)
(* definition, a file that does not parse or validate, or a subdirectory.  *)
(* fs.ReadDir returns the entries sorted by file name, which is the order  *)
(* of FileNames.                                                           *)
ErrLoadingTools == "failed to load tools"

FileNames ==
    << [base |-> ExecToolName, ext |-> ".yaml"],
       [base |-> GitToolName,  ext |-> ".yaml"],
       [base |-> GitToolName,  ext |-> ".yml"] >>
FileKinds == {"absent", "valid", "invalid", "dir"}

\* The readable directories, and the directory that cannot be read.
Dirs ==
    {[readable |-> TRUE, entries |-> e] :
        e \in {d \in [1..Len(FileNames) -> FileKinds] :
                    d[1] # "dir" /\ d[3] \in {"absent", "valid"}}}
    \cup {[readable |-> FALSE,
           entries |-> [i \in 1..Len(FileNames) |-> "absent"]]}

\* fs.ReadDir: the indices of the entries that exist, in name order.
RECURSIVE ReadDirFrom(_, _)
ReadDirFrom(d, i) ==
    IF i > Len(FileNames) THEN <<>>
    ELSE (IF d.entries[i] # "absent" THEN <<i>> ELSE <<>>)
         \o ReadDirFrom(d, i + 1)
ReadDir(d) == ReadDirFrom(d, 1)

\* strings.TrimSuffix(toolFile.Name(), filepath.Ext(toolFile.Name()))
ToolNameOf(i) == FileNames[i].base

\* tool.NewExecTool and tool.New: the two kinds of tool a registry holds.
ExecTool == [kind |-> "exec", name |-> ExecToolName, file |-> ""]
DeclarativeTool(i) ==
    [kind |-> "declarative", name |-> ToolNameOf(i), file |-> FileNames[i].ext]

\* loadTool: the tool of a file, or nil and an error.
loadTool(d, i) ==
    IF d.entries[i] = "valid" THEN Some(DeclarativeTool(i)) ELSE None

\* make(map[string]tool.Tool), and map assignment.
EmptyTools == [n \in {} |-> ExecTool]
Put(m, k, v) == [n \in DOMAIN m \cup {k} |-> IF n = k THEN v ELSE m[n]]

IdleLoader(ret) == [pc |-> "idle", files |-> <<>>, i |-> 0, ret |-> ret]

----------------------------------------------------------------------------
(* The exec tool's configuration and inputs.  A path is the sequence of    *)
(* its characters; the separator, the dot and one letter are enough to     *)
(* spell every shape of path the code tells apart.  Durations are counted  *)
(* in milliseconds (the integers here are 32 bits wide).                   *)
Second == 1000

\* config.ToolsConfiguration: Timeout and Exec.Timeout, in seconds.
GlobalTimeouts == {0, 30}
ExecTimeouts == {-1, 0, 2}
Configs == [timeout : GlobalTimeouts, execTimeout : ExecTimeouts]
TestConfig == [timeout |-> 30, execTimeout |-> 2]

\* Variant: an exec timeout of 0 counts as set.
getTimeout_ZeroIsSet(cfg) ==
    (IF cfg.execTimeout >= 0 THEN cfg.execTimeout ELSE cfg.timeout) * Second

\* execTool.getTimeout
getTimeout(cfg) ==
    (IF cfg.execTimeout > 0 THEN cfg.execTimeout ELSE cfg.timeout) * Second

PathSeparator == "/"
PathChars == {PathSeparator, ".", "a"}
Paths == SeqsUpTo(PathChars, MaxPathLen)
Root == <<PathSeparator>>
\* os.Getwd: the root directory or a directory below it.
Cwds == {Root, <<PathSeparator, "a">>}

\* strings.HasPrefix, strings.TrimPrefix, strings.Contains, strings.TrimRight
HasPrefix(p, prefix) ==
    Len(prefix) <= Len(p) /\ SubSeq(p, 1, Len(prefix)) = prefix
TrimPrefix(p, prefix) ==
    IF HasPrefix(p, prefix) THEN SubSeq(p, Len(prefix) + 1, Len(p)) ELSE p
Contains(p, c) == \E i \in 1..Len(p) : p[i] = c
RECURSIVE TrimRight(_, _)
TrimRight(p, c) ==
    IF p # <<>> /\ p[Len(p)] = c THEN TrimRight(SubSeq(p, 1, Len(p) - 1), c)
    ELSE p

\* The elements of a path between its separators (empty ones included).
Elements(p) ==
    LET upTo[i \in 0..Len(p)] ==
            IF i = 0 THEN << <<>> >>
            ELSE IF p[i] = PathSeparator THEN Append(upTo[i - 1], <<>>)
            ELSE [upTo[i - 1] EXCEPT ![Len(upTo[i - 1])] = Append(@, p[i])]
    IN upTo[Len(p)]

DotDot == <<".", ".">>

\* filepath.Clean, the elements it keeps: empty and "." elements are
\* dropped, ".." removes the element before it (at the root it is dropped,
\* at the start of a relative path it is kept).
CleanElements(p) ==
    LET els == Elements(p)
        rooted == p[1] = PathSeparator
        kept[i \in 0..Len(els)] ==
            IF i = 0 THEN <<>>
            ELSE LET k == kept[i - 1] IN
                 IF els[i] = <<>> \/ els[i] = <<".">> THEN k
                 ELSE IF els[i] = DotDot
                 THEN IF k # <<>> /\ k[Len(k)] # DotDot
                      THEN SubSeq(k, 1, Len(k) - 1)
                      ELSE IF rooted THEN k ELSE Append(k, DotDot)
                 ELSE Append(k, els[i])
    IN kept[Len(els)]

RECURSIVE Spell(_)
Spell(els) ==
    IF els = <<>> THEN <<>>
    ELSE IF Len(els) = 1 THEN els[1]
    ELSE els[1] \o <<PathSeparator>> \o Spell(Tail(els))

\* filepath.Clean
Clean(p) ==
    IF p = <<>> THEN <<".">>
    ELSE LET body == Spell(CleanElements(p)) IN
         IF p[1] = PathSeparator THEN Root \o body
         ELSE IF body = <<>> THEN <<".">> ELSE body

\* filepath.Join of two elements: empty elements are ignored, the rest is
\* joined with the separator and cleaned.
Join(a, b) ==
    IF a = <<>> /\ b = <<>> THEN <<>>
    ELSE IF a = <<>> THEN Clean(b)
    ELSE IF b = <<>> THEN Clean(a)
    ELSE Clean(a \o <<PathSeparator>> \o b)

\* inputs[key] of a tool call: absent, a value that is no string, or a string.
Absent == [kind |-> "absent", val |-> <<>>]
NonString == [kind |-> "nonstring", val |-> <<>>]
Str(v) == [kind |-> "string", val |-> v]
CommandInputs == {Absent, NonString, Str(<<"a">>)}
WorkingDirectoryInputs == {Absent, NonString} \cup {Str(p) : p \in Paths}

\* getWorkingDirectory, with the current directory that os.Getwd returned.
getWorkingDirectory(wd, dir) ==
    LET currentDir == TrimRight(dir, PathSeparator) IN
    IF wd.kind # "string" \/ wd.val = <<".">> THEN currentDir
    ELSE IF HasPrefix(wd.val, <<".", PathSeparator>>)
            \/ ~Contains(wd.val, PathSeparator)
    THEN Join(currentDir, TrimPrefix(wd.val, <<".", PathSeparator>>))
    ELSE LET prefix == currentDir \o <<PathSeparator>> IN
         TrimRight(IF HasPrefix(wd.val, prefix)
                   THEN Join(prefix, TrimPrefix(wd.val, prefix))
                   ELSE wd.val,
                   PathSeparator)

\* How the Run model names the input of an exec call: "ok" when
\* inputs["command"] is a string.
InputOf(command) == IF command.kind = "string" THEN "ok" ELSE "nokey"

----------------------------------------------------------------------------
(* Tool definitions (tool.Definition) and their validation.                *)
ErrToolMissingDisplayName == "missing tool display name"
ErrToolMissingDescription == "missing tool description"
ErrToolInputMissingType == "missing tool input type"
ErrToolInputMissingDescription == "missing tool input description"
ErrToolExecutableNotFound == "tool executable not found"

InputNames == {"input1", "input2"}
InputDefs == [type : {"", "string"}, description : {"", "Description"}]
\* Definition.Inputs, a map[string]Input.
InputMaps == UNION {[names -> InputDefs] : names \in SUBSET InputNames}
\* The executables on PATH, and the ones a definition may name ("": none).
OnPath == {"ls"}
Executables == {"", "ls", "non-existent-executable"}
Definitions ==
    [displayName : {"", "Tool"}, description : {"", "Description"},
     inputs : InputMaps, executable : Executables]

\* exec.LookPath: nil when the file is found.
LookPath(file) == file \in OnPath

\* The orders in which a range over a map with these keys can visit them.
Orders(keys) ==
    {q \in [1..Cardinality(keys) -> keys] :
        \A i, j \in 1..Cardinality(keys) : q[i] = q[j] => i = j}

Err(msg, arg) == [msg |-> msg, arg |-> arg]
Nil == Err(NoErr, "")

\* ValidateDefinition, the loop over def.Inputs from the i-th key visited.
RECURSIVE InputError(_, _, _)
InputError(inputs, order, i) ==
    IF i > Len(order) THEN Nil
    ELSE IF inputs[order[i]].type = ""
    THEN Err(ErrToolInputMissingType, order[i])
    ELSE IF inputs[order[i]].description = ""
    THEN Err(ErrToolInputMissingDescription, order[i])
    ELSE InputError(inputs, order, i + 1)

\* Variant: the description is looked at before the display name.
ValidateDefinition_DescriptionFirst(def, order) ==
    IF def.description = "" THEN Err(ErrToolMissingDescription, "")
    ELSE IF def.displayName = "" THEN Err(ErrToolMissingDisplayName, "")
    ELSE IF InputError(def.inputs, order, 1) # Nil
    THEN InputError(def.inputs, order, 1)
    ELSE IF def.executable # "" /\ ~LookPath(def.executable)
    THEN Err(ErrToolExecutableNotFound, def.executable)
    ELSE Nil

\* ValidateDefinition, when the range over def.Inputs visits them in order.
ValidateDefinition(def, order) ==
    IF def.displayName = "" THEN Err(ErrToolMissingDisplayName, "")
    ELSE IF def.description = "" THEN Err(ErrToolMissingDescription, "")
    ELSE IF InputError(def.inputs, order, 1) # Nil
    THEN InputError(def.inputs, order, 1)
    ELSE IF def.executable # "" /\ ~LookPath(def.executable)
    THEN Err(ErrToolExecutableNotFound, def.executable)
    ELSE Nil

\* The input keys every tool knows, and the exec tool's own.
inputTask == "task"
inputCommand == "command"
inputWorkingDirectory == "working_directory"

\* tool.Input as far as the schema shows it: Type, Description, Default and
\* Optional (a field a definition leaves out has its zero value).
SchemaInput(type, description, default, optional) ==
    [type |-> type, description |-> description, default |-> default,
     optional |-> optional]

\* appendCommonInputs, the map it starts from.
CommonInputs ==
    [n \in {inputTask, inputWorkingDirectory} |->
        IF n = inputTask
        THEN SchemaInput("string", "Task the user wants to complete", "", FALSE)
        ELSE SchemaInput("string", "Working directory to use", ".", TRUE)]

\* maps.Copy: every entry of src is written into dst.
MapsCopy(dst, src) ==
    [n \in DOMAIN dst \cup DOMAIN src |->
        IF n \in DOMAIN src THEN src[n] ELSE dst[n]]

\* appendCommonInputs
appendCommonInputs(inputs) == MapsCopy(CommonInputs, inputs)

\* generateInputSchema, when the range over the inputs visits them in order.
generateInputSchema(inputs, order) ==
    [type |-> "object",
     properties |-> [n \in DOMAIN inputs |->
                        [type |-> inputs[n].type,
                         description |-> inputs[n].description,
                         default |-> inputs[n].default]],
     required |-> SelectSeq(order, LAMBDA n : ~inputs[n].optional)]

\* NewExecTool: the inputs of the exec tool's definition.
ExecInputs ==
    [n \in {inputCommand, inputWorkingDirectory} |->
        IF n = inputCommand
        THEN SchemaInput("string", "The shell command", "", FALSE)
        ELSE SchemaInput("string", "The working directory for the command",
                         "", FALSE)]

\* The inputs a definition file that validates may declare.
DeclaredNames == {"input1", inputWorkingDirectory}
DeclaredInputs ==
    {SchemaInput("string", "Description", d, o) :
        d \in {"", "."}, o \in BOOLEAN}
DeclaredInputMaps ==
    UNION {[names -> DeclaredInputs] : names \in SUBSET DeclaredNames}

\* The tools a registry is filled with: name and declared inputs.
NewTools ==
    {[name |-> ExecToolName, inputs |-> ExecInputs]}
    \cup {[name |-> GitToolName, inputs |-> m] : m \in DeclaredInputMaps}

\* No direct call of a tool function has been made.
NoToolCall == config = TestConfig /\ cwd = <<PathSeparator, "a">> /\ toolCall = None

\* main.go lines 91-107: a goroutine drains each of the three channels.
ConsumersRun == readers = Channels

\* No second goroutine calls Run.
NoOtherRun ==
    /\ current = 1
    /\ other = [request |-> [isNil |-> TRUE, task |-> "", tools |-> {},
                             live |-> FALSE],
                stack |-> <<>>, mainPc |-> "done",
                mainRet |-> [out |-> <<>>, err |-> NoErr],
                topOutputs |-> <<>>]

----------------------------------------------------------------------------
(* Agent.Run, piece by piece.                                              *)

\* Variant: the empty task is not checked.
PreconditionError_NoTaskCheck(isNil, task) ==
    IF isNil THEN ErrNoRunOptions ELSE NoErr

\* The two guards at the top of Run.
PreconditionError(isNil, task) ==
    IF isNil THEN ErrNoRunOptions
    ELSE IF task = "" THEN ErrNoTaskProvided
    ELSE NoErr

\* Variant: tool choice auto, parallel tool use left enabled.
ToolChoice_Parallel(tools) ==
    IF Cardinality(tools) > 0
    THEN Some([type |-> "auto", disableParallelToolUse |-> FALSE])
    ELSE None

\* msg.ToolChoice of the request Run builds for a tool set.
ToolChoice(tools) ==
    IF Cardinality(tools) > 0
    THEN Some([type |-> "auto", disableParallelToolUse |-> TRUE])
    ELSE None

\* What the tools of a registry answer: GetName is the key the tool is
\* registered under, GetDescription the description of its definition, and
\* GetInputSchema the schema tool.New built (in the order its range over
\* the inputs happened to take).
GetDescription(n) ==
    IF n = ExecToolName THEN "Executes the provided shell command"
    ELSE "Description"
ToolInputs(n) ==
    IF n = ExecToolName THEN ExecInputs
    ELSE [i \in {"input1"} |-> SchemaInput("string", "Description", "", FALSE)]
GetInputSchema(n) ==
    LET inputs == appendCommonInputs(ToolInputs(n)) IN
    generateInputSchema(inputs, CHOOSE o \in Orders(DOMAIN inputs) : TRUE)

\* anthropic.ToolParam of one tool.
ToolParam(n) ==
    [name |-> n, description |-> GetDescription(n),
     inputSchema |-> GetInputSchema(n)]

\* Variant: the exec tool is left out.
convertTools_WithoutExec(tools) == SetToBag({ToolParam(n) : n \in tools \ {ExecToolName}})

\* convertTools: the slice of the specs of the tools, appended in the order
\* of a range over the map; a bag, which keeps how often a spec occurs and
\* forgets the order.
convertTools(tools) == SetToBag({ToolParam(n) : n \in tools})

\* isError and resultBlockContent of the tool-result block Run builds from
\* a non-nil tool output and the error Execute returned with it.
ResultIsError(out, err) ==
    IF out.cmd # None THEN out.cmd[1].exit # 0 ELSE err # NoErr
ResultContent(out) ==
    IF out.cmd # None THEN out.cmd[1].output
    ELSE IF out.result # "" THEN out.result
    ELSE ""

\* Variant: the loop never breaks.
TurnBreaks_Never(toolResults) == FALSE

\* Variant: the loop also breaks after a turn with a single tool result.
TurnBreaks_AtMostOne(toolResults) == Len(toolResults) <= 1

\* Line 258: Run breaks out of the loop when no tool result was built.
TurnBreaks(toolResults) == Len(toolResults) = 0

\* Variant: the tool results are appended as a user turn before the break.
HistoryAfterTurn_AlwaysUser(messages, resp, toolResults) ==
    Append(Append(messages, AssistantTurn(resp)),
           UserResultsTurn(toolResults))

\* Lines 257-262: the history at the end of one pass of the for loop.
HistoryAfterTurn(messages, resp, toolResults) ==
    IF TurnBreaks(toolResults)
    THEN Append(messages, AssistantTurn(resp))
    ELSE Append(Append(messages, AssistantTurn(resp)),
                UserResultsTurn(toolResults))

\* A Run invocation: its arguments, its locals, its position, and a record
\* of what this invocation did (status / messages+commands it sent, tools
\* it called since its last model request, whether the API failed, ids of
\* the tool uses whose Execute returned an error, how often it called the
\* exec tool's Execute, how often that started a process, how many commands
\* it sent, the responses the API gave to its requests).
NewFrame(isNil, task, caller, tools, toolName) ==
    [isNil |-> isNil, task |-> task, caller |-> caller, tools |-> tools,
     toolName |-> toolName,
     pc |-> "enter",
     messages |-> <<>>, output |-> <<>>,
     resp |-> <<>>, idx |-> 0, toolResults |-> <<>>,
     calls |-> 0, req |-> None, answers |-> <<>>,
     cur |-> [out |-> None, err |-> NoErr],
     inflight |-> {},
     ret |-> [out |-> <<>>, err |-> NoErr],
     nRunning |-> 0, nEmits |-> 0, dispatched |-> 0, apiErrSeen |-> FALSE,
     erred |-> {},
     execCalls |-> 0, execRan |-> 0, nCmds |-> 0,
     ctxDoneAtStart |-> FALSE]

Depth == Len(stack)
Top == stack[Depth]
SetTop(f) == [stack EXCEPT ![Depth] = f]
Running == Depth > 0

\* Variant: the channels are buffered, a send needs no consumer.
Receives_Buffered(c) == TRUE

\* make(chan T): a send on the channel completes only when a consumer
\* takes the value, so it needs a goroutine that receives from the channel.
Receives(c) == c \in readers

\* Variant: the consumer sees the newest value first.
Send_NewestFirst(ch, v) == <<v>> \o ch

\* A send on an unbuffered channel (ch <- v): the sender waits until the
\* consumer has taken the value, so the value joins what the consumer has
\* received before the sender's next step.
Send(ch, v) == Append(ch, v)

\* Where an emission comes from: the id of the tool-use block whose
\* Execute runs the Run at level l (<<0, 0>> for the outermost Run).
NoBlockId == <<0, 0>>
ParentOf(l) ==
    IF l = 1 THEN NoBlockId ELSE stack[l - 1].resp[stack[l - 1].idx].id

\* opts.Tools as the Run at the top of the stack reads it.  The outermost
\* Run of main is given the registry's own map (GetTools returns tm.tools),
\* so what it reads is what that map holds at the moment of the read; a
\* nested Run is given a map made for it.  (Line 174 and line 178 read the
\* map one after the other; they are taken as one read.)
CurrentTools ==
    IF Depth = 1 /\ request.live THEN DOMAIN tmTools ELSE Top.tools

\* The tool sets of the outermost Run: none, or what the registry holds
\* (the exec tool and a declarative tool; live: the map is the registry's).
ToolSets == {{}, {ExecToolName, GitToolName}}

Requests ==
    {[isNil |-> TRUE, task |-> "", tools |-> {}, live |-> FALSE]}
    \cup {[isNil |-> FALSE, task |-> "", tools |-> {ExecToolName},
            live |-> FALSE]}
    \cup {[isNil |-> FALSE, task |-> TopTask, tools |-> ts,
            live |-> ts # {}] : ts \in ToolSets}

\* main.go lines 63-70: the registry has been loaded before Run is called.
LoadedRegistry ==
    /\ toolDir = [readable |-> TRUE,
                  entries |-> <<"absent", "valid", "absent">>]
    /\ tmTools = Put(Put(EmptyTools, ExecToolName, ExecTool),
                     GitToolName, DeclarativeTool(2))
    /\ loader = IdleLoader(Some(NoErr))
    /\ lastLoad = Some([dir |-> toolDir, names |-> DOMAIN tmTools,
                        again |-> FALSE])
    /\ reader = [held |-> FALSE, heldAfterLoad |-> FALSE, last |-> None]

Init ==
    /\ LoadedRegistry
    /\ cancelled = FALSE
    /\ request \in Requests
    /\ stack = <<NewFrame(request.isNil, request.task, "", request.tools, "")>>
    /\ mainPc = "run"
    /\ mainRet = [out |-> <<>>, err |-> NoErr]
    /\ statusLog = <<>>
    /\ msgLog = <<>>
    /\ cmdLog = <<>>
    /\ apiCalls = 0
    /\ taskBlocks = 0
    /\ topOutputs = <<>>
    /\ NoToolCall
    /\ NoOtherRun
    /\ ConsumersRun

\* Run, lines 136-142: fail before anything else on a missing request/task.
RunReject ==
    /\ Running /\ Top.pc = "enter"
    /\ PreconditionError(Top.isNil, Top.task) # NoErr
    /\ stack' = SetTop([Top EXCEPT
            !.pc = "ret",
            !.ret = [out |-> <<>>, err |-> PreconditionError(Top.isNil, Top.task)]])
    /\ UNCHANGED <<sideVars, regVars, cancelled, request, mainPc, mainRet, statusLog, msgLog, cmdLog,
                   apiCalls, taskBlocks, topOutputs>>

\* Variant: Run starts its loop without sending the Running status.
EmitRunning_Skip ==
    /\ Running /\ Top.pc = "enter"
    /\ PreconditionError(Top.isNil, Top.task) = NoErr
    /\ stack' = SetTop([Top EXCEPT
            !.pc = "call",
            !.output = <<>>,
            !.messages = <<UserTextTurn(Top.task)>>])
    /\ UNCHANGED <<sideVars, regVars, cancelled, request, mainPc, mainRet, statusLog, msgLog, cmdLog,
                   apiCalls, taskBlocks, topOutputs>>

\* Run, lines 144-164: the prompt is rendered from the embedded template
\* (static, it always renders), the Running status is handed to the status
\* consumer, then output and messages are initialised.
EmitRunning ==
    /\ Running /\ Top.pc = "enter"
    /\ PreconditionError(Top.isNil, Top.task) = NoErr
    /\ Receives("status")
    /\ statusLog' = Send(statusLog, [status |-> StatusRunning, by |-> "run",
                                     parent |-> ParentOf(Depth)])
    /\ stack' = SetTop([Top EXCEPT
            !.pc = "call",
            !.nRunning = @ + 1,
            !.output = <<>>,
            !.messages = <<UserTextTurn(Top.task)>>])
    /\ UNCHANGED <<sideVars, regVars, cancelled, request, mainPc, mainRet, msgLog, cmdLog, apiCalls,
                   taskBlocks, topOutputs>>

\* The request of lines 167-183.
BuildRequest(f) ==
    [messages |-> f.messages, tools |-> convertTools(f.tools),
     toolChoice |-> ToolChoice(f.tools)]

\* Lines 185-193: the API answers with a message (Messages.New returns the
\* context's error once the context is done).
ModelCallOk ==
    /\ Running /\ Top.pc = "call"
    /\ ~cancelled
    /\ Top.calls < MaxTurns
    /\ \E r \in ModelAnswers(Top.calls + 1, taskBlocks) :
        /\ taskBlocks' = taskBlocks + Len(r)
        /\ stack' = SetTop([Top EXCEPT
            !.pc = "blocks",
            !.req = Some(BuildRequest([Top EXCEPT !.tools = CurrentTools])),
            !.calls = @ + 1,
            !.dispatched = 0,
            !.resp = [i \in 1..Len(r) |-> WithId(r[i], <<Top.calls + 1, i>>)],
            !.answers = Append(@, [i \in 1..Len(r) |->
                                    WithId(r[i], <<Top.calls + 1, i>>)]),
            !.idx = 1,
            !.toolResults = <<>>])
    /\ apiCalls' = apiCalls + 1
    /\ UNCHANGED <<sideVars, regVars, cancelled, request, mainPc, mainRet, statusLog, msgLog, cmdLog,
                   topOutputs>>

\* Variant: a failed API call is retried.
ModelCallFail_Retry ==
    /\ Running /\ Top.pc = "call"
    /\ Top.calls < MaxTurns
    /\ stack' = SetTop([Top EXCEPT
            !.req = Some(BuildRequest([Top EXCEPT !.tools = CurrentTools])),
            !.calls = @ + 1,
            !.apiErrSeen = TRUE])
    /\ apiCalls' = apiCalls + 1
    /\ UNCHANGED <<sideVars, regVars, cancelled, request, mainPc, mainRet, statusLog, msgLog, cmdLog,
                   taskBlocks, topOutputs>>

\* Lines 185-191: the API call fails; Run returns nil and the error.
ModelCallFail ==
    /\ Running /\ Top.pc = "call"
    /\ Top.calls < MaxTurns
    /\ stack' = SetTop([Top EXCEPT
            !.pc = "ret",
            !.req = Some(BuildRequest([Top EXCEPT !.tools = CurrentTools])),
            !.calls = @ + 1,
            !.apiErrSeen = TRUE,
            !.ret = [out |-> <<>>,
                     err |-> IF cancelled THEN ErrCancelled ELSE ErrAPI]])
    /\ apiCalls' = apiCalls + 1
    /\ UNCHANGED <<sideVars, regVars, cancelled, request, mainPc, mainRet, statusLog, msgLog, cmdLog,
                   taskBlocks, topOutputs>>

InBlocks == Running /\ Top.pc = "blocks" /\ Top.idx <= Len(Top.resp)
Block == Top.resp[Top.idx]

\* Variant: a text block is forwarded without the caller.
TextBlockStep_Anonymous ==
    /\ InBlocks /\ Block.kind = "text"
    /\ Receives("messages")
    /\ msgLog' = Send(msgLog, [tool |-> "", message |-> Block.text,
                               depth |-> Depth, parent |-> ParentOf(Depth),
                               id |-> Block.id])
    /\ stack' = SetTop([Top EXCEPT !.idx = @ + 1, !.nEmits = @ + 1])
    /\ UNCHANGED <<sideVars, regVars, cancelled, request, mainPc, mainRet, statusLog, cmdLog, apiCalls,
                   taskBlocks, topOutputs>>

\* Lines 196-203: a text block is sent as a Message.
TextBlockStep ==
    /\ InBlocks /\ Block.kind = "text"
    /\ Receives("messages")
    /\ msgLog' = Send(msgLog, [tool |-> Top.caller, message |-> Block.text,
                               depth |-> Depth, parent |-> ParentOf(Depth),
                               id |-> Block.id])
    /\ stack' = SetTop([Top EXCEPT !.idx = @ + 1, !.nEmits = @ + 1])
    /\ UNCHANGED <<sideVars, regVars, cancelled, request, mainPc, mainRet, statusLog, cmdLog, apiCalls,
                   taskBlocks, topOutputs>>

\* Variant: a block that cannot be served ends the handling of the response.
ToolUseSkip_AbortTurn ==
    /\ InBlocks /\ IsToolUse(Block)
    /\ Block.input = "bad" \/ Block.name \notin CurrentTools
    /\ stack' = SetTop([Top EXCEPT !.idx = Len(Top.resp) + 1])
    /\ UNCHANGED <<sideVars, regVars, cancelled, request, mainPc, mainRet, statusLog, msgLog, cmdLog,
                   apiCalls, taskBlocks, topOutputs>>

\* Lines 209-219: unparseable input or unknown tool: continue.
ToolUseSkip ==
    /\ InBlocks /\ IsToolUse(Block)
    /\ Block.input = "bad" \/ Block.name \notin CurrentTools
    /\ stack' = SetTop([Top EXCEPT !.idx = @ + 1])
    /\ UNCHANGED <<sideVars, regVars, cancelled, request, mainPc, mainRet, statusLog, msgLog, cmdLog,
                   apiCalls, taskBlocks, topOutputs>>

Dispatchable ==
    /\ InBlocks /\ IsToolUse(Block)
    /\ Block.input # "bad" /\ Block.name \in CurrentTools

\* Line 221 when Execute returns at once: execTool.Execute lines 96-99 and
\* tool.Execute lines 473-476 return (nil, invalid input type).
ToolRejectsInput ==
    /\ Dispatchable /\ Block.input = "nokey"
    /\ stack' = SetTop([Top EXCEPT
            !.pc = "handle",
            !.dispatched = @ + 1,
            !.execCalls = @ + (IF Block.name = ExecToolName THEN 1 ELSE 0),
            !.erred = @ \cup {Block.id},
            !.cur = [out |-> None, err |-> ErrInvalidToolInputType]])
    /\ UNCHANGED <<sideVars, regVars, cancelled, request, mainPc, mainRet, statusLog, msgLog, cmdLog,
                   apiCalls, taskBlocks, topOutputs>>

\* Variant: the process is started and the loop moves on without waiting.
ExecStart_Async ==
    /\ Dispatchable /\ Block.input = "ok" /\ Block.name = ExecToolName
    /\ stack' = SetTop([Top EXCEPT
            !.idx = @ + 1,
            !.dispatched = @ + 1,
            !.inflight = @ \cup {Block.id}])
    /\ UNCHANGED <<sideVars, regVars, cancelled, request, mainPc, mainRet, statusLog, msgLog, cmdLog,
                   apiCalls, taskBlocks, topOutputs>>

\* Line 221 on the exec tool: the shell process is started.
ExecStart ==
    /\ Dispatchable /\ Block.input = "ok" /\ Block.name = ExecToolName
    /\ stack' = SetTop([Top EXCEPT
            !.pc = "exec",
            !.dispatched = @ + 1,
            !.execCalls = @ + 1,
            !.execRan = @ + 1,
            !.ctxDoneAtStart = cancelled,
            !.inflight = @ \cup {Block.id}])
    /\ UNCHANGED <<sideVars, regVars, cancelled, request, mainPc, mainRet, statusLog, msgLog, cmdLog,
                   apiCalls, taskBlocks, topOutputs>>

\* execTool.Execute lines 114-137: the process ended (or never started).
ExecFinish ==
    /\ Running /\ Top.pc = "exec"
    /\ \E o \in StartOutcomes(Top.ctxDoneAtStart) :
        LET r == ExecExecute(Block.input, o) IN
        /\ stack' = SetTop([Top EXCEPT
                !.pc = "handle",
                !.cur = r,
                !.erred = IF r.err # NoErr THEN @ \cup {Block.id} ELSE @,
                !.inflight = @ \ {Block.id}])
        /\ topOutputs' = IF Depth = 1 THEN topOutputs \o r.out ELSE topOutputs
    /\ UNCHANGED <<sideVars, regVars, cancelled, request, mainPc, mainRet, statusLog, msgLog, cmdLog,
                   apiCalls, taskBlocks>>

\* Variant: the nested Run gets the tools of the Run that called the tool.
NestedTools_Inherit(callerTools) == callerTools

\* tool.Execute line 486: the Tools of the RunOptions it builds.
NestedTools(callerTools) == {ExecToolName}

\* Variant: the nested Run is started without looking at the task input.
ToolStart_NoTaskCheck ==
    /\ Dispatchable /\ Block.input \in {"ok", "nokey"}
    /\ Block.name # ExecToolName
    /\ stack' = Append(
            SetTop([Top EXCEPT
                !.pc = "nested",
                !.dispatched = @ + 1,
                !.inflight = @ \cup {Block.id}]),
            NewFrame(FALSE, ToolUserPrompt(InputTask), DisplayName(Block.name),
                     NestedTools(CurrentTools), Block.name))
    /\ UNCHANGED <<sideVars, regVars, cancelled, request, mainPc, mainRet, statusLog, msgLog, cmdLog,
                   apiCalls, taskBlocks, topOutputs>>

\* Variant: the calling Run goes on with its next block while the nested
\* Run is in progress.
ToolStart_Detached ==
    /\ Dispatchable /\ Block.input = "ok" /\ Block.name # ExecToolName
    /\ stack' = Append(
            SetTop([Top EXCEPT
                !.pc = "blocks",
                !.idx = @ + 1,
                !.dispatched = @ + 1,
                !.inflight = @ \cup {Block.id}]),
            NewFrame(FALSE, ToolUserPrompt(InputTask), DisplayName(Block.name),
                     NestedTools(CurrentTools), Block.name))
    /\ UNCHANGED <<sideVars, regVars, cancelled, request, mainPc, mainRet, statusLog, msgLog, cmdLog,
                   apiCalls, taskBlocks, topOutputs>>

\* Line 221 on a declarative tool: tool.Execute lines 483-495 call Run
\* with the exec tool only and the tool's display name as caller.
ToolStart ==
    /\ Dispatchable /\ Block.input = "ok" /\ Block.name # ExecToolName
    /\ stack' = Append(
            SetTop([Top EXCEPT
                !.pc = "nested",
                !.dispatched = @ + 1,
                !.inflight = @ \cup {Block.id}]),
            NewFrame(FALSE, ToolUserPrompt(InputTask), DisplayName(Block.name),
                     NestedTools(CurrentTools), Block.name))
    /\ UNCHANGED <<sideVars, regVars, cancelled, request, mainPc, mainRet, statusLog, msgLog, cmdLog,
                   apiCalls, taskBlocks, topOutputs>>

\* The nested Run returns into tool.Execute (lines 495-505), which returns
\* its output to line 221 of the calling Run.
NestedReturn ==
    /\ Depth > 1 /\ Top.pc = "ret"
    /\ LET caller == stack[Depth - 1]
           r == ToolExecuteResult(Top.toolName, Top.ret.out, Top.ret.err)
       IN
        /\ stack' = [SubSeq(stack, 1, Depth - 1) EXCEPT ![Depth - 1] =
                [caller EXCEPT
                    !.pc = "handle",
                    !.cur = r,
                    !.erred = IF r.err # NoErr
                              THEN @ \cup {caller.resp[caller.idx].id}
                              ELSE @,
                    !.inflight = @ \ {caller.resp[caller.idx].id}]]
        /\ topOutputs' = IF Depth = 2 THEN topOutputs \o r.out ELSE topOutputs
    /\ UNCHANGED <<sideVars, regVars, cancelled, request, mainPc, mainRet, statusLog, msgLog, cmdLog,
                   apiCalls, taskBlocks>>

\* Variant: a tool without output is called again for the same block.
HandleNoOutput_NoAdvance ==
    /\ Running /\ Top.pc = "handle" /\ Top.cur.out = None
    /\ stack' = SetTop([Top EXCEPT !.pc = "blocks"])
    /\ UNCHANGED <<sideVars, regVars, cancelled, request, mainPc, mainRet, statusLog, msgLog, cmdLog,
                   apiCalls, taskBlocks, topOutputs>>

\* Lines 227-230: no output, continue.
HandleNoOutput ==
    /\ Running /\ Top.pc = "handle" /\ Top.cur.out = None
    /\ stack' = SetTop([Top EXCEPT !.pc = "blocks", !.idx = @ + 1])
    /\ UNCHANGED <<sideVars, regVars, cancelled, request, mainPc, mainRet, statusLog, msgLog, cmdLog,
                   apiCalls, taskBlocks, topOutputs>>

\* Variant: the result is sent as a message whether or not a command
\* record came with it.
SendsMessage_AnyResult(out) == out.result # ""

\* Line 235: the condition under which the output's result is sent on the
\* Messages channel.
SendsMessage(out) == out.result # "" /\ out.cmd = None

\* Line 246: the condition under which the output's executed command is
\* sent on the Commands channel.
SendsCommand(out) == out.cmd # None

\* Variant: the output list holds the last output only.
HandleOutput_KeepsLast ==
    /\ Running /\ Top.pc = "handle" /\ Top.cur.out # None
    /\ LET out == Top.cur.out[1]
           sendsMsg == SendsMessage(out)
           sendsCmd == SendsCommand(out)
       IN
        /\ sendsMsg => Receives("messages")
        /\ sendsCmd => Receives("commands")
        /\ msgLog' = IF sendsMsg
                     THEN Send(msgLog, [tool |-> Top.caller,
                                        message |-> out.result,
                                        depth |-> Depth,
                                        parent |-> ParentOf(Depth),
                                        id |-> Block.id])
                     ELSE msgLog
        /\ cmdLog' = IF sendsCmd
                     THEN Send(cmdLog, [exit |-> out.cmd[1].exit,
                                        output |-> out.cmd[1].output,
                                        depth |-> Depth,
                                        parent |-> ParentOf(Depth),
                                        id |-> Block.id])
                     ELSE cmdLog
        /\ stack' = SetTop([Top EXCEPT
                !.pc = "blocks",
                !.idx = @ + 1,
                !.output = <<out>>,
                !.nEmits = @ + (IF sendsMsg THEN 1 ELSE 0)
                             + (IF sendsCmd THEN 1 ELSE 0),
                !.nCmds = @ + (IF sendsCmd THEN 1 ELSE 0),
                !.toolResults = Append(@,
                    NewToolResultBlock(Block.id, ResultContent(out),
                                       ResultIsError(out, Top.cur.err)))])
    /\ UNCHANGED <<sideVars, regVars, cancelled, request, mainPc, mainRet, statusLog, apiCalls, taskBlocks, topOutputs>>

\* Lines 232-253: record the output, forward it, build the result block.
HandleOutput ==
    /\ Running /\ Top.pc = "handle" /\ Top.cur.out # None
    /\ LET out == Top.cur.out[1]
           sendsMsg == SendsMessage(out)
           sendsCmd == SendsCommand(out)
       IN
        /\ sendsMsg => Receives("messages")
        /\ sendsCmd => Receives("commands")
        /\ msgLog' = IF sendsMsg
                     THEN Send(msgLog, [tool |-> Top.caller,
                                        message |-> out.result,
                                        depth |-> Depth,
                                        parent |-> ParentOf(Depth),
                                        id |-> Block.id])
                     ELSE msgLog
        /\ cmdLog' = IF sendsCmd
                     THEN Send(cmdLog, [exit |-> out.cmd[1].exit,
                                        output |-> out.cmd[1].output,
                                        depth |-> Depth,
                                        parent |-> ParentOf(Depth),
                                        id |-> Block.id])
                     ELSE cmdLog
        /\ stack' = SetTop([Top EXCEPT
                !.pc = "blocks",
                !.idx = @ + 1,
                !.output = Append(@, out),
                !.nEmits = @ + (IF sendsMsg THEN 1 ELSE 0)
                             + (IF sendsCmd THEN 1 ELSE 0),
                !.nCmds = @ + (IF sendsCmd THEN 1 ELSE 0),
                !.toolResults = Append(@,
                    NewToolResultBlock(Block.id, ResultContent(out),
                                       ResultIsError(out, Top.cur.err)))])
    /\ UNCHANGED <<sideVars, regVars, cancelled, request, mainPc, mainRet, statusLog, apiCalls, taskBlocks, topOutputs>>

\* Lines 257-265: append the response; break when no tool result was
\* built, otherwise append the results as a user turn and loop.
EndTurn ==
    /\ Running /\ Top.pc = "blocks" /\ Top.idx > Len(Top.resp)
    /\ stack' = SetTop([Top EXCEPT
            !.messages = HistoryAfterTurn(@, Top.resp, Top.toolResults),
            !.pc = IF TurnBreaks(Top.toolResults) THEN "ret" ELSE "call",
            !.ret = IF TurnBreaks(Top.toolResults)
                    THEN [out |-> Top.output, err |-> NoErr]
                    ELSE @])
    /\ UNCHANGED <<sideVars, regVars, cancelled, request, mainPc, mainRet, statusLog, msgLog, cmdLog,
                   apiCalls, taskBlocks, topOutputs>>

\* main.go line 82: the outermost Run returns to the goroutine of main.
MainRunReturns ==
    /\ Depth = 1 /\ Top.pc = "ret" /\ mainPc = "run"
    /\ mainRet' = Top.ret
    /\ mainPc' = "emit"
    /\ stack' = <<>>
    /\ UNCHANGED <<sideVars, regVars, cancelled, request, statusLog, msgLog, cmdLog, apiCalls, taskBlocks, topOutputs>>

\* Variant: main reports Finished whatever Run returned.
TerminalStatus_AlwaysFinished(err) == StatusFinished

\* The status main sends for what Run returned (lines 82-88).
TerminalStatus(err) == IF err # NoErr THEN StatusError ELSE StatusFinished

\* main.go lines 83 / 86.
MainEmitTerminal ==
    /\ mainPc = "emit"
    /\ Receives("status")
    /\ statusLog' = Send(statusLog,
            [status |-> TerminalStatus(mainRet.err), by |-> "main",
             parent |-> NoBlockId])
    /\ mainPc' = "done"
    /\ UNCHANGED <<sideVars, regVars, cancelled, request, stack, mainRet, msgLog, cmdLog, apiCalls,
                   taskBlocks, topOutputs>>

Next ==
    \/ RunReject
    \/ EmitRunning
    \/ ModelCallOk
    \/ ModelCallFail
    \/ TextBlockStep
    \/ ToolUseSkip
    \/ ToolRejectsInput
    \/ ExecStart
    \/ ExecFinish
    \/ ToolStart
    \/ NestedReturn
    \/ HandleNoOutput
    \/ HandleOutput
    \/ EndTurn
    \/ MainRunReturns
    \/ MainEmitTerminal

Spec == Init /\ [][Next]_vars

\* Where a Run waits for something outside itself: for a consumer to take
\* what it sends (lines 161, 197, 237, 247), for the API to answer (line
\* 185), for the process of the exec tool to end (line 221).
WaitsToSend ==
    \/ Top.pc = "enter" /\ PreconditionError(Top.isNil, Top.task) = NoErr
    \/ InBlocks /\ Block.kind = "text"
    \/ /\ Top.pc = "handle" /\ Top.cur.out # None
       /\ SendsMessage(Top.cur.out[1]) \/ SendsCommand(Top.cur.out[1])
WaitsForApi == Top.pc = "call"
WaitsForProcess == Top.pc = "exec"

\* The caller of the outermost Run cancels the context it passed, while
\* that Run (or the nested Run it is in) waits at one of these points.
Cancel ==
    /\ ~cancelled
    /\ mainPc = "run" /\ Running
    /\ WaitsToSend \/ WaitsForApi \/ WaitsForProcess
    /\ cancelled' = TRUE
    /\ UNCHANGED <<sideVars, regVars, request, stack, mainPc, mainRet, statusLog, msgLog, cmdLog,
                   apiCalls, taskBlocks, topOutputs>>

CancelNext == Next \/ Cancel

\* The program with a caller that may cancel.
CancelSpec == Init /\ [][CancelNext]_vars

----------------------------------------------------------------------------
(* ToolManager.LoadTools, step by step, over a directory that changes      *)
(* between the calls.                                                      *)

\* New(): an empty map; no Run.
RegistryInit ==
    /\ toolDir \in Dirs
    /\ tmTools = EmptyTools
    /\ loader = IdleLoader(None)
    /\ lastLoad = None
    /\ reader = [held |-> FALSE, heldAfterLoad |-> FALSE, last |-> None]
    /\ cancelled = FALSE
    /\ request = [isNil |-> TRUE, task |-> "", tools |-> {}, live |-> FALSE]
    /\ stack = <<>>
    /\ mainPc = "load"
    /\ mainRet = [out |-> <<>>, err |-> NoErr]
    /\ statusLog = <<>>
    /\ msgLog = <<>>
    /\ cmdLog = <<>>
    /\ apiCalls = 0
    /\ taskBlocks = 0
    /\ topOutputs = <<>>
    /\ NoToolCall
    /\ NoOtherRun
    /\ ConsumersRun

\* Somebody changes the directory while no LoadTools is running.
DirChange ==
    /\ mainPc = "load" /\ loader.pc = "idle"
    /\ \E d \in Dirs : d # toolDir /\ toolDir' = d
    /\ UNCHANGED <<tmTools, loader, lastLoad, reader, runVars, sideVars>>

\* Lines 117-120: ReadDir fails and LoadTools returns the error.
LoadToolsFails ==
    /\ mainPc = "load" /\ loader.pc = "idle"
    /\ ~toolDir.readable
    /\ loader' = IdleLoader(Some(ErrLoadingTools))
    /\ UNCHANGED <<toolDir, tmTools, lastLoad, reader, runVars, sideVars>>

\* Variant: the map is not emptied.
LoadToolsClear_Keep ==
    /\ loader.pc = "idle"
    /\ toolDir.readable
    /\ loader' = [pc |-> "exec", files |-> ReadDir(toolDir), i |-> 1,
                  ret |-> None]
    /\ UNCHANGED <<toolDir, tmTools, lastLoad, reader, runVars, sideVars>>

\* Lines 117-127: ReadDir succeeds, the lock is taken, the map is emptied.
LoadToolsClear ==
    /\ loader.pc = "idle"
    /\ toolDir.readable
    /\ tmTools' = EmptyTools
    /\ loader' = [pc |-> "exec", files |-> ReadDir(toolDir), i |-> 1,
                  ret |-> None]
    /\ UNCHANGED <<toolDir, lastLoad, reader, runVars, sideVars>>

\* Line 130: the exec tool is inserted.
LoadToolsExec ==
    /\ loader.pc = "exec"
    /\ tmTools' = Put(tmTools, ExecToolName, ExecTool)
    /\ loader' = [loader EXCEPT !.pc = "files"]
    /\ UNCHANGED <<toolDir, lastLoad, reader, runVars, sideVars>>

\* Lines 132-146: one pass of the loop over the directory entries.
LoadToolsFile ==
    /\ loader.pc = "files" /\ loader.i <= Len(loader.files)
    /\ LET i == loader.files[loader.i]
           t == loadTool(toolDir, i)
       IN  tmTools' = IF toolDir.entries[i] = "dir" \/ t = None
                      THEN tmTools
                      ELSE Put(tmTools, ToolNameOf(i), t[1])
    /\ loader' = [loader EXCEPT !.i = @ + 1]
    /\ UNCHANGED <<toolDir, lastLoad, reader, runVars, sideVars>>

\* Lines 148-150: the lock is released and LoadTools returns nil.
LoadToolsReturns ==
    /\ loader.pc = "files" /\ loader.i > Len(loader.files)
    /\ loader' = IdleLoader(Some(NoErr))
    /\ lastLoad' = Some([dir |-> toolDir, names |-> DOMAIN tmTools,
                         again |-> lastLoad # None /\ lastLoad[1].dir = toolDir])
    /\ UNCHANGED <<toolDir, tmTools, reader, runVars, sideVars>>

\* What a reader got from one read of the registry: the operation, the
\* name it asked for, the names it found in the map, the tool and error it
\* was given, and whether a LoadTools had returned nil before the read.
Observation(op, name, names, t, err) ==
    [op |-> op, name |-> name, names |-> names, tool |-> t, err |-> err,
     afterLoad |-> lastLoad # None]

\* The write lock of LoadTools is held from line 122 to its return.
WriteLocked == loader.pc # "idle"

\* GetTools, lines 173-178: under the read lock, return the map itself.
GetTools ==
    /\ mainPc = "load" /\ ~WriteLocked
    /\ reader' = [held |-> TRUE, heldAfterLoad |-> lastLoad # None,
                  last |-> Some(Observation("GetTools", "", DOMAIN tmTools,
                                            None, NoErr))]
    /\ UNCHANGED <<toolDir, tmTools, loader, lastLoad, runVars, sideVars>>

\* The caller of GetTools reads the map it was given (len, range, index),
\* holding no lock: it reads whatever the map holds at that moment, also
\* in the middle of a LoadTools.  (The Go runtime may instead end the
\* process with "concurrent map read and map write"; the behaviour then
\* stops, which this specification allows at every state.)
ReadReturnedMap ==
    /\ mainPc = "load" /\ reader.held
    /\ reader' = [reader EXCEPT
            !.last = Some(Observation("read", "", DOMAIN tmTools, None, NoErr))]
    /\ UNCHANGED <<toolDir, tmTools, loader, lastLoad, runVars, sideVars>>

ErrToolNotFound == "tool not found"
LookupNames == {ExecToolName, GitToolName, UnknownToolName}

\* Variant: a missing name yields the exec tool.
GetToolResult_Fallback(m, name) ==
    IF name \in DOMAIN m THEN [tool |-> Some(m[name]), err |-> NoErr]
    ELSE [tool |-> Some(ExecTool), err |-> NoErr]

\* GetTool lines 185-190: the entry of the map, or nil and an error.
GetToolResult(m, name) ==
    IF name \in DOMAIN m THEN [tool |-> Some(m[name]), err |-> NoErr]
    ELSE [tool |-> None, err |-> ErrToolNotFound]

\* GetTool, lines 181-191, under the read lock.
GetTool ==
    /\ mainPc = "load" /\ ~WriteLocked
    /\ \E name \in LookupNames :
        LET r == GetToolResult(tmTools, name) IN
        reader' = [reader EXCEPT
            !.last = Some(Observation("GetTool", name, DOMAIN tmTools,
                                      r.tool, r.err))]
    /\ UNCHANGED <<toolDir, tmTools, loader, lastLoad, runVars, sideVars>>

RegistryNext ==
    \/ GetTools
    \/ ReadReturnedMap
    \/ GetTool
    \/ DirChange
    \/ LoadToolsFails
    \/ LoadToolsClear
    \/ LoadToolsExec
    \/ LoadToolsFile
    \/ LoadToolsReturns

RegistrySpec == RegistryInit /\ [][RegistryNext]_vars

----------------------------------------------------------------------------
(* The program when another goroutine calls LoadTools (over the same       *)
(* directory) while the Run of main is in progress.                        *)
SharedNext ==
    \/ Next
    \/ LoadToolsClear
    \/ LoadToolsExec
    \/ LoadToolsFile
    \/ LoadToolsReturns

SharedSpec == Init /\ [][SharedNext]_vars

\* The same program when the API answers every request of the outermost
\* Run; a nested Run may still fail (its tool then returns an error).
NestedModelCallFail == Depth > 1 /\ ModelCallFail

LiveNext ==
    \/ RunReject
    \/ EmitRunning
    \/ ModelCallOk
    \/ NestedModelCallFail
    \/ TextBlockStep
    \/ ToolUseSkip
    \/ ToolRejectsInput
    \/ ExecStart
    \/ ExecFinish
    \/ ToolStart
    \/ NestedReturn
    \/ HandleNoOutput
    \/ HandleOutput
    \/ EndTurn
    \/ MainRunReturns
    \/ MainEmitTerminal

\* Every send is received, every API call and every process returns: the
\* goroutine of main keeps taking its next step.
LiveSpec == Init /\ [][LiveNext]_vars /\ WF_vars(LiveNext)

----------------------------------------------------------------------------
(* The program with any of the consumer goroutines missing, and with the   *)
(* goroutine of main taking its next step whenever it can: a send that has *)
(* a consumer, an API call and a process all complete.                     *)
ConsumerInit ==
    /\ LoadedRegistry
    /\ cancelled = FALSE
    /\ request \in Requests
    /\ stack = <<NewFrame(request.isNil, request.task, "", request.tools, "")>>
    /\ mainPc = "run"
    /\ mainRet = [out |-> <<>>, err |-> NoErr]
    /\ statusLog = <<>>
    /\ msgLog = <<>>
    /\ cmdLog = <<>>
    /\ apiCalls = 0
    /\ taskBlocks = 0
    /\ topOutputs = <<>>
    /\ NoToolCall
    /\ NoOtherRun
    /\ readers \in SUBSET Channels

ConsumerSpec == ConsumerInit /\ [][Next]_vars /\ WF_vars(Next)

----------------------------------------------------------------------------
(* The exec tool and ValidateDefinition called directly, as the loader and *)
(* a caller that holds the tool do, under every configuration.  Neither    *)
(* keeps anything from one call to the next, so a behaviour is one call.   *)
ToolInit ==
    /\ config \in Configs
    /\ cwd \in Cwds
    /\ toolCall = None
    /\ NoOtherRun
    /\ ConsumersRun
    /\ LoadedRegistry
    /\ cancelled = FALSE
    /\ request = [isNil |-> TRUE, task |-> "", tools |-> {}, live |-> FALSE]
    /\ stack = <<>>
    /\ mainPc = "tool"
    /\ mainRet = [out |-> <<>>, err |-> NoErr]
    /\ statusLog = <<>>
    /\ msgLog = <<>>
    /\ cmdLog = <<>>
    /\ apiCalls = 0
    /\ taskBlocks = 0
    /\ topOutputs = <<>>

\* execTool.Execute: the command check, the timeout context (which has
\* already expired when the timeout is not positive), the process, and the
\* output with the resolved working directory.
Execute ==
    /\ mainPc = "tool"
    /\ \E command \in CommandInputs, wd \in WorkingDirectoryInputs :
        LET ran == InputOf(command) = "ok"
            timeout == getTimeout(config)
        IN \E o \in StartOutcomes(timeout <= 0) :
            toolCall' = Some(
                [op |-> "Execute",
                 command |-> command,
                 workingDirectory |-> wd,
                 ran |-> ran,
                 timeout |-> IF ran THEN Some(timeout) ELSE None,
                 dir |-> IF ran THEN Some(getWorkingDirectory(wd, cwd))
                         ELSE None,
                 ret |-> ExecExecute(InputOf(command), o)])
    /\ mainPc' = "called"
    /\ UNCHANGED <<config, cwd, other, current, readers, regVars, cancelled, request, stack, mainRet, statusLog,
                   msgLog, cmdLog, apiCalls, taskBlocks, topOutputs>>

\* ValidateDefinition on some definition.
Validate ==
    /\ mainPc = "tool"
    /\ \E def \in Definitions :
        \E order \in Orders(DOMAIN def.inputs) :
            toolCall' = Some([op |-> "ValidateDefinition",
                              def |-> def,
                              err |-> ValidateDefinition(def, order)])
    /\ mainPc' = "called"
    /\ UNCHANGED <<config, cwd, other, current, readers, regVars, cancelled, request, stack, mainRet, statusLog,
                   msgLog, cmdLog, apiCalls, taskBlocks, topOutputs>>

\* tool.New (NewExecTool for the exec tool): the input schema of the tool.
NewTool ==
    /\ mainPc = "tool"
    /\ \E t \in NewTools :
        \E order \in Orders(DOMAIN appendCommonInputs(t.inputs)) :
            toolCall' = Some(
                [op |-> "New",
                 name |-> t.name,
                 inputs |-> t.inputs,
                 inputSchema |->
                    generateInputSchema(appendCommonInputs(t.inputs), order)])
    /\ mainPc' = "called"
    /\ UNCHANGED <<config, cwd, other, current, readers, regVars, cancelled, request, stack, mainRet, statusLog,
                   msgLog, cmdLog, apiCalls, taskBlocks, topOutputs>>

ToolNext == Execute \/ Validate \/ NewTool

ToolSpec == ToolInit /\ [][ToolNext]_vars

----------------------------------------------------------------------------
(* Two goroutines call Run on the same agent at the same time, each with   *)
(* the exec tool and a task of its own.  The locals of a Run (messages,    *)
(* output, toolResults) live on the stack of its goroutine; the channels   *)
(* and the agent's fields are shared.  One goroutine takes steps at a      *)
(* time, and the scheduler may switch to the other before any step.        *)
OtherTask == "other task"

RunState(r, st, pc, ret, outs) ==
    [request |-> r, stack |-> st, mainPc |-> pc, mainRet |-> ret,
     topOutputs |-> outs]

TwoRunsInit ==
    /\ LoadedRegistry
    /\ NoToolCall
    /\ cancelled = FALSE
    /\ request = [isNil |-> FALSE, task |-> TopTask, tools |-> {ExecToolName},
                  live |-> FALSE]
    /\ stack = <<NewFrame(FALSE, TopTask, "", {ExecToolName}, "")>>
    /\ mainPc = "run"
    /\ mainRet = [out |-> <<>>, err |-> NoErr]
    /\ statusLog = <<>>
    /\ msgLog = <<>>
    /\ cmdLog = <<>>
    /\ apiCalls = 0
    /\ taskBlocks = 0
    /\ topOutputs = <<>>
    /\ current = 1
    /\ ConsumersRun
    /\ other = RunState([isNil |-> FALSE, task |-> OtherTask,
                         tools |-> {ExecToolName}, live |-> FALSE],
                        <<NewFrame(FALSE, OtherTask, "", {ExecToolName}, "")>>,
                        "run", [out |-> <<>>, err |-> NoErr], <<>>)

\* Variant: the history and the outputs are fields of the agent, so the
\* goroutine that continues finds what the other one left there.
Yield_SharedHistory ==
    /\ other.mainPc # "done"
    /\ other' = RunState(request, stack, mainPc, mainRet, topOutputs)
    /\ request' = other.request
    /\ stack' = IF other.stack # <<>> /\ stack # <<>>
                THEN [other.stack EXCEPT
                        ![1].messages = stack[1].messages,
                        ![1].output = stack[1].output]
                ELSE other.stack
    /\ mainPc' = other.mainPc
    /\ mainRet' = other.mainRet
    /\ topOutputs' = other.topOutputs
    /\ current' = 3 - current
    /\ UNCHANGED <<config, cwd, toolCall, readers, regVars, cancelled, statusLog, msgLog, cmdLog,
                   apiCalls, taskBlocks>>

\* The scheduler switches to the other goroutine, which finds its own
\* stack (the locals of its Run) as it left it.
Yield ==
    /\ other.mainPc # "done"
    /\ other' = RunState(request, stack, mainPc, mainRet, topOutputs)
    /\ request' = other.request
    /\ stack' = other.stack
    /\ mainPc' = other.mainPc
    /\ mainRet' = other.mainRet
    /\ topOutputs' = other.topOutputs
    /\ current' = 3 - current
    /\ UNCHANGED <<config, cwd, toolCall, readers, regVars, cancelled, statusLog, msgLog, cmdLog,
                   apiCalls, taskBlocks>>

\* With the exec tool as the only tool no Run is nested, and both requests
\* pass the checks of lines 136-142.
TwoRunsNext ==
    \/ EmitRunning
    \/ ModelCallOk
    \/ ModelCallFail
    \/ TextBlockStep
    \/ ToolUseSkip
    \/ ToolRejectsInput
    \/ ExecStart
    \/ ExecFinish
    \/ HandleNoOutput
    \/ HandleOutput
    \/ EndTurn
    \/ MainRunReturns
    \/ MainEmitTerminal
    \/ Yield

TwoRunsSpec == TwoRunsInit /\ [][TwoRunsNext]_vars

----------------------------------------------------------------------------
(* Properties.                                                             *)

Frames == {stack[l] : l \in 1..Len(stack)}
RequestValid == ~request.isNil /\ request.task # ""
RunningCount == Cardinality({i \in 1..Len(statusLog) :
                                statusLog[i].status = StatusRunning})

\* C1: when the model answers every request of the outermost Run and its
\* last answer holds no tool-use block, a Run with a valid request returns
\* without error, and returns the outputs its tools produced, in order.
C1_RunTerminates ==
    RequestValid ~>
        (mainPc # "run" /\ mainRet.err = NoErr /\ mainRet.out = topOutputs)

C1_Witness ==
    /\ mainPc = "done" /\ mainRet.err = NoErr
    /\ Len(mainRet.out) = 2 /\ mainRet.out = topOutputs

\* C2: Run(nil) fails with ErrNoRunOptions and Run with an empty task with
\* ErrNoTaskProvided; neither sends Running, a message or a command, and
\* neither calls the API.
C2_PreconditionFailure ==
    /\ request.isNil /\ mainPc # "run" => mainRet.err = ErrNoRunOptions
    /\ ~request.isNil /\ request.task = "" /\ mainPc # "run"
            => mainRet.err = ErrNoTaskProvided
    /\ ~RequestValid =>
            /\ RunningCount = 0
            /\ msgLog = <<>> /\ cmdLog = <<>>
            /\ apiCalls = 0
            /\ \A f \in Frames : f.pc \in {"enter", "ret"}

C2_Witness ==
    /\ ~request.isNil /\ request.task = ""
    /\ mainPc = "done" /\ mainRet.err = ErrNoTaskProvided

\* C3: once an API call of a Run has failed, the only step that Run takes
\* is to return the API error to its caller: no API call, no status,
\* message or command follows from it.
C3_ApiErrorIsFatal ==
    [][\A l \in 1..Len(stack) : stack[l].apiErrSeen =>
            /\ Len(stack') = l - 1
            /\ IF l = 1 THEN mainRet'.err = ErrAPI /\ mainRet'.out = <<>>
                        ELSE stack'[l - 1].cur.err = ErrAPI
            /\ apiCalls' = apiCalls
            /\ statusLog' = statusLog /\ msgLog' = msgLog /\ cmdLog' = cmdLog
      ]_vars

C3_Witness ==
    /\ mainPc = "done" /\ mainRet.err = ErrAPI /\ mainRet.out = <<>>
    /\ Len(topOutputs) > 0 /\ apiCalls >= 2

\* The tool uses of a frame whose turn is over (the response they came in
\* has been appended to the history).
TurnOver(f, id) == Len(f.messages) >= 2 * id[1]

\* C4: every tool use whose Execute returned an error has, in the history
\* the next request carries, a tool-result block with its id and the error
\* flag set; and a tool error does not make Run fail.
C4_ToolErrorFedBack ==
    \A f \in Frames :
        /\ \A id \in f.erred : TurnOver(f, id) =>
                /\ Len(f.messages) >= 2 * id[1] + 1
                /\ \E i \in 1..Len(f.messages[2 * id[1] + 1].content) :
                    LET b == f.messages[2 * id[1] + 1].content[i] IN
                    b.kind = "tool_result" /\ b.id = id /\ b.isError
        /\ f.erred # {} /\ ~f.apiErrSeen /\ f.pc = "ret" => f.ret.err = NoErr

\* The tool-use blocks of the current response that Run has reached.
Reached(f) ==
    LET n == IF f.pc \in {"exec", "nested", "handle"} THEN f.idx
             ELSE f.idx - 1
    IN  {i \in 1..Len(f.resp) : i <= n /\ IsToolUse(f.resp[i])}

\* C5 as stated: at most one tool is executed between two model requests.
C5_AtMostOneToolPerTurn ==
    \A f \in Frames : f.dispatched <= 1

\* C5: between two model requests Run executes at most one tool per
\* tool-use block of the response it has reached, so at most one tool when
\* the response holds at most one tool-use block.
C5_OneToolPerToolUseBlock ==
    \A f \in Frames :
        /\ f.dispatched <= Cardinality(Reached(f))
        /\ NumToolUses(f.resp) <= 1 => f.dispatched <= 1

C5_Witness ==
    \E f \in Frames :
        /\ f.dispatched = 2 /\ NumToolUses(f.resp) = 2
        /\ f.pc = "blocks" /\ Len(f.toolResults) = 2

\* C6: every model request of a Run with a non-empty tool set carries tool
\* choice auto with parallel tool use disabled; with an empty tool set no
\* tool choice is set.
C6_ToolChoice ==
    \A f \in Frames : f.req # None =>
        /\ f.tools # {} =>
            f.req[1].toolChoice =
                <<[type |-> "auto", disableParallelToolUse |-> TRUE]>>
        /\ f.tools = {} => f.req[1].toolChoice = <<>>

C6_Witness ==
    \E f \in Frames :
        /\ f.tools # {} /\ f.calls = 2 /\ f.req # None
        /\ Len(f.req[1].messages) = 3

\* C7: a Run has at most one tool execution in flight, and it is the one
\* of the block the Run is at.
C7_OneInFlight ==
    \A f \in Frames :
        /\ Cardinality(f.inflight) <= 1
        /\ f.inflight # {} =>
            /\ f.pc \in {"exec", "nested"}
            /\ f.inflight = {f.resp[f.idx].id}

C7_Witness ==
    \E f \in Frames :
        /\ f.inflight # {} /\ f.idx = 2 /\ f.dispatched = 2
        /\ Len(f.toolResults) = 1

\* The history of C8: the task as first user turn, then assistant turn and
\* non-empty user turn of tool results in alternation.
WellFormedHistory(h, task) ==
    /\ Len(h) >= 1
    /\ h[1] = [role |-> "user", content |-> <<[kind |-> "text", text |-> task]>>]
    /\ \A i \in 2..Len(h) :
        IF i % 2 = 0
        THEN h[i].role = "assistant"
        ELSE /\ h[i].role = "user"
             /\ Len(h[i].content) > 0
             /\ \A j \in 1..Len(h[i].content) :
                    h[i].content[j].kind = "tool_result"

\* C8: from the moment Run has built it, the history is well formed, and
\* every request is sent with a well-formed history ending in a user turn.
C8_HistoryAlternates ==
    \A f \in Frames :
        /\ (f.pc # "enter" /\ PreconditionError(f.isNil, f.task) = NoErr)
                => WellFormedHistory(f.messages, f.task)
        /\ f.req # None =>
                /\ WellFormedHistory(f.req[1].messages, f.task)
                /\ f.req[1].messages[Len(f.req[1].messages)].role = "user"

C8_Witness ==
    \E f \in Frames :
        /\ f.pc = "ret" /\ f.ret.err = NoErr
        /\ Len(f.messages) = 4 /\ Len(f.messages[3].content) = 2

\* C9: a Run that passed its preconditions has sent Running exactly once as
\* soon as it is past its start, and has called the API and sent messages
\* or commands only after that; every status a Run sends is Running.
C9_RunningOnce ==
    /\ \A f \in Frames :
        /\ PreconditionError(f.isNil, f.task) = NoErr =>
                f.nRunning = (IF f.pc = "enter" THEN 0 ELSE 1)
        /\ f.nRunning = 0 => f.calls = 0 /\ f.nEmits = 0
    /\ \A i \in 1..Len(statusLog) :
        statusLog[i].by = "run" => statusLog[i].status = StatusRunning

C9_Witness ==
    /\ Len(stack) = 2 /\ Len(statusLog) = 2
    /\ stack[2].nRunning = 1 /\ stack[2].calls = 1 /\ stack[2].nEmits = 1

TerminalAt ==
    {i \in 1..Len(statusLog) :
        statusLog[i].status \in {StatusFinished, StatusError}}

\* C10: main sends one terminal status, after Run returned: Finished when
\* Run returned no error, Error otherwise; it is the last status of the
\* log, so no Running (of a nested Run either) follows it.
C10_TerminalStatusLast ==
    /\ mainPc # "done" => TerminalAt = {}
    /\ mainPc = "done" =>
        /\ TerminalAt = {Len(statusLog)}
        /\ statusLog[Len(statusLog)].by = "main"
        /\ statusLog[Len(statusLog)].status =
                (IF mainRet.err = NoErr THEN StatusFinished ELSE StatusError)
        /\ stack = <<>>

C10_Witness ==
    /\ mainPc = "done" /\ Len(statusLog) = 3
    /\ statusLog[2].status = StatusRunning
    /\ statusLog[3].status = StatusError

\* C11: the step that handles a tool output hands over exactly one command
\* and no message when the output carries an executed command; otherwise
\* exactly one message when its result is not empty, and nothing when it
\* is empty.  The message is the result, the command is the record.
C11_ForwardingExclusive ==
    [][(Running /\ Top.pc = "handle" /\ Top.cur.out # None) =>
        LET out == Top.cur.out[1] IN
        IF out.cmd # None
        THEN /\ Len(cmdLog') = Len(cmdLog) + 1
             /\ SubSeq(cmdLog', 1, Len(cmdLog)) = cmdLog
             /\ cmdLog'[Len(cmdLog')].exit = out.cmd[1].exit
             /\ cmdLog'[Len(cmdLog')].output = out.cmd[1].output
             /\ msgLog' = msgLog
        ELSE IF out.result # ""
        THEN /\ Len(msgLog') = Len(msgLog) + 1
             /\ SubSeq(msgLog', 1, Len(msgLog)) = msgLog
             /\ msgLog'[Len(msgLog')].message = out.result
             /\ cmdLog' = cmdLog
        ELSE msgLog' = msgLog /\ cmdLog' = cmdLog
      ]_vars

\* A nested exec output was handled (one command, no message), then the
\* declarative tool's output that carries its result (one message).
C11_Witness ==
    /\ Len(cmdLog) = 1 /\ cmdLog[1].output # ""
    /\ Len(msgLog) = 1 /\ msgLog[1].tool = "" /\ msgLog[1].message = "out"
    /\ Len(topOutputs) = 1 /\ topOutputs[1].cmd = None

\* The Run is inside a call of the exec tool's Execute, or holds what it
\* returned and has not handled it yet.
InExecCall(f) ==
    /\ f.pc \in {"exec", "handle"}
    /\ f.resp[f.idx].name = ExecToolName

\* C12 as stated: every call of the exec tool's Execute that the loop has
\* finished handling has sent exactly one command.
C12_OneCommandPerExecCall ==
    \A f \in Frames :
        f.nCmds = f.execCalls - (IF InExecCall(f) THEN 1 ELSE 0)

\* C12: every call of the exec tool's Execute whose input holds a string
\* command, once handled, has sent exactly one command, and a call that is
\* rejected for its input sends none; the commands received from the
\* outermost Run are as many as it sent.
C12_OneCommandPerExecRun ==
    /\ \A f \in Frames :
        f.nCmds = f.execRan
                  - (IF InExecCall(f) /\ f.resp[f.idx].input = "ok"
                     THEN 1 ELSE 0)
    /\ Running =>
        Cardinality({i \in 1..Len(cmdLog) : cmdLog[i].depth = 1})
            = stack[1].nCmds

\* One exec call ran and one was rejected; both have been handled.
C12_Witness ==
    \E f \in Frames :
        /\ f.execCalls = 2 /\ f.execRan = 1 /\ f.nCmds = 1
        /\ f.pc = "blocks" /\ Len(cmdLog) = 1

\* The place of an emission in the order the program produces them: the
\* turn and block of the outermost Run it belongs to, then (for a nested
\* Run) the turn and block of the nested Run.  What the outermost Run sends
\* for a block comes after all the nested Run of that block sends.
Last == MaxTurns + MaxBlocks + 1
Key(e) ==
    IF e.depth = 1 THEN <<e.id[1], e.id[2], Last, Last>>
    ELSE <<e.parent[1], e.parent[2], e.id[1], e.id[2]>>
StatusKey(e) ==
    IF e.by = "main" THEN <<Last, Last>> ELSE e.parent

RECURSIVE LexLess(_, _)
LexLess(a, b) ==
    IF a = <<>> THEN FALSE
    ELSE \/ a[1] < b[1]
         \/ a[1] = b[1] /\ LexLess(Tail(a), Tail(b))

\* The ids of the blocks for which the Run at level l has sent on a channel.
SentIds(log, l) ==
    {log[k].id : k \in {j \in 1..Len(log) :
                        log[j].depth = l /\ log[j].parent = ParentOf(l)}}

\* The block with this id is one the frame is done with.
Handled(f, id) ==
    \/ id[1] < f.calls
    \/ id[1] = f.calls /\ id[2] < f.idx

AtUnservable ==
    /\ InBlocks /\ IsToolUse(Block)
    /\ Block.input = "bad" \/ Block.name \notin CurrentTools

\* C14: the step a Run takes at such a block moves it to the next block of
\* the same response and nothing else: no tool is called, no result block
\* or output is recorded, nothing is sent, no Run starts or returns.  And a
\* Run that returns without an API failure and with its preconditions met
\* returns no error, having gone through every block of its last response.
C14_SkippedAlone ==
    /\ [][AtUnservable =>
            /\ Len(stack') = Len(stack)
            /\ Top'.pc = "blocks" /\ Top'.idx = Top.idx + 1
            /\ Top'.resp = Top.resp
            /\ Top'.dispatched = Top.dispatched
            /\ Top'.execCalls = Top.execCalls
            /\ Top'.inflight = {}
            /\ Top'.toolResults = Top.toolResults
            /\ Top'.output = Top.output
            /\ statusLog' = statusLog /\ msgLog' = msgLog /\ cmdLog' = cmdLog
            /\ apiCalls' = apiCalls
       ]_vars
    /\ [](\A f \in Frames :
            (f.pc = "ret" /\ ~f.apiErrSeen
                /\ PreconditionError(f.isNil, f.task) = NoErr)
            => f.ret.err = NoErr /\ f.idx = Len(f.resp) + 1)

\* A response of an unparseable tool use followed by an exec tool use: the
\* first was skipped, the second was executed and has its result block.
C14_Witness ==
    \E f \in Frames :
        /\ Len(f.resp) = 2 /\ f.resp[1].input = "bad"
        /\ f.pc = "blocks" /\ f.idx = 3
        /\ f.dispatched = 1 /\ Len(f.toolResults) = 1
        /\ f.toolResults[1].id = <<1, 2>>

\* C15: Run calls are nested at most two deep; a nested Run has the exec
\* tool as its only tool, offers only that tool to the model, and is never
\* itself inside a declarative tool's Execute.
C15_NestedExecOnly ==
    /\ Depth <= 2
    /\ \A l \in 2..Len(stack) :
        /\ stack[l].tools = {ExecToolName}
        /\ stack[l].toolName # ExecToolName
        /\ stack[l].pc # "nested"
        /\ stack[l].req # None =>
                {t.name : t \in BagToSet(stack[l].req[1].tools)} = {ExecToolName}

\* The model asked a nested Run for the declarative tool; the block was
\* passed over without a call.
C15_Witness ==
    /\ Depth = 2
    /\ stack[2].resp # <<>> /\ stack[2].resp[1].name = GitToolName
    /\ stack[2].resp[1].input = "ok"
    /\ stack[2].idx = 2 /\ stack[2].dispatched = 0

\* The Run is about to call a declarative tool with an input that has no
\* string under "task".
AtTaskless ==
    /\ Dispatchable /\ Block.name # ExecToolName /\ Block.input = "nokey"

LastResult(outs) == IF Len(outs) > 0 THEN outs[Len(outs)].result ELSE ""

\* A nested Run is about to return to the Execute that called it.
NestedReturning == Depth > 1 /\ Top.pc = "ret"

C18_NestedFailureOutput ==
    [][(NestedReturning /\ Top.ret.err # NoErr) =>
        /\ Len(stack') = Depth - 1
        /\ Top'.cur.err = Top.ret.err
        /\ Top'.cur.out # None
        /\ Top'.cur.out[1].isError = TRUE
        /\ Top'.cur.out[1].result = LastResult(Top.output)
      ]_vars

\* C19, for the runs in which Run returns: a Run with a valid request whose
\* context was cancelled while it was in progress returns a cancellation
\* error.
C19_CancelledRunFails ==
    (cancelled /\ RequestValid /\ mainPc # "run")
        => mainRet.err = ErrCancelled

\* LoadTools has returned nil and no other call of it has begun.
Loaded == loader.pc = "idle" /\ loader.ret = Some(NoErr)

\* C20: after a successful LoadTools the map holds the exec tool under
\* the name of the exec tool.
C20_ExecAlwaysRegistered ==
    Loaded =>
        /\ ExecToolName \in DOMAIN tmTools
        /\ tmTools[ExecToolName] = ExecTool

\* The values of a map.
Range(m) == {m[n] : n \in DOMAIN m}

\* The indices of the files of a directory that hold a valid definition.
ValidFiles(d) == {i \in 1..Len(FileNames) : d.entries[i] = "valid"}

\* LoadTools is about to return nil.
LoadReturning == loader.pc = "files" /\ loader.i > Len(loader.files)

\* C21: LoadTools over a readable directory never fails, and when it
\* returns the map holds the exec tool and one tool per valid definition
\* of the directory, and nothing else (so only the exec tool when no file
\* is valid).
C21_LoadYieldsValidPlusExec ==
    /\ [][(loader.pc = "idle" /\ toolDir.readable /\ loader'.pc = "idle")
            => loader' = loader]_vars
    /\ [][LoadReturning =>
            /\ loader'.ret = Some(NoErr)
            /\ Range(tmTools') =
                    {ExecTool} \cup {DeclarativeTool(i) : i \in ValidFiles(toolDir)}
       ]_vars

C23_ReadersSeeExec ==
    (reader.last # None /\ reader.last[1].afterLoad) =>
        LET o == reader.last[1] IN
        /\ (o.op = "GetTools" \/ (o.op = "read" /\ reader.heldAfterLoad)) =>
                o.names # {} /\ ExecToolName \in o.names
        /\ (o.op = "GetTool" /\ o.name = ExecToolName) =>
                o.err = NoErr /\ o.tool # None

\* C25: a step in which GetTool returns leaves the map as it was, happens
\* only while no LoadTools holds the lock, and returns the map's entry
\* for the name and no error when the map has the name, nil and the
\* tool-not-found error when it has not.
C25_GetToolLookup ==
    [][(reader' # reader /\ reader'.last # None
            /\ reader'.last[1].op = "GetTool") =>
        LET o == reader'.last[1] IN
        /\ tmTools' = tmTools
        /\ ~WriteLocked
        /\ o.name \in DOMAIN tmTools =>
                o.tool = Some(tmTools[o.name]) /\ o.err = NoErr
        /\ o.name \notin DOMAIN tmTools =>
                o.tool = None /\ o.err = ErrToolNotFound
      ]_vars

\* After a load that found a valid definition, a name that is not in the
\* map was looked up and not found.
C25_Witness ==
    /\ reader.last # None /\ reader.last[1].op = "GetTool"
    /\ reader.last[1].name = UnknownToolName
    /\ reader.last[1].err = ErrToolNotFound
    /\ reader.last[1].names = {ExecToolName, GitToolName}
    /\ DOMAIN tmTools = {ExecToolName, GitToolName}

\* The tool-use blocks of the current response of the outermost Run that
\* it has reached and that the tool set it was called with can serve.
Servable(f) ==
    {i \in Reached(f) : f.resp[i].input # "bad"
                          /\ f.resp[i].name \in request.tools}

\* C24: whatever LoadTools does while the outermost Run is in progress,
\* every model request of that Run advertises the tools of the tool set
\* the Run was called with, and every tool-use block naming one of them is
\* given to that tool.
C24_ToolSetFixedDuringRun ==
    (Running /\ request.live) =>
        LET f == stack[1] IN
        /\ f.req # None =>
                {t.name : t \in BagToSet(f.req[1].tools)} = request.tools
        /\ f.dispatched = Cardinality(Servable(f))

\* The errors of a process that the context ended: it was killed or never
\* started ("killed"), or it was signalled when it had just exited ("late").
ContextEnded == {"killed", "late"}

ExecRan ==
    toolCall # None /\ toolCall[1].op = "Execute" /\ toolCall[1].ran
Validated == toolCall # None /\ toolCall[1].op = "ValidateDefinition"

\* C27: the timeout of an exec call is the exec timeout of the
\* configuration when that is greater than 0 and the global timeout
\* otherwise, taken as seconds: 30 and 2 give 2 s, 30 and 0 give 30 s.
C27_EffectiveTimeout ==
    ExecRan =>
        LET t == toolCall[1].timeout[1] IN
        /\ config.execTimeout > 0 => t = config.execTimeout * Second
        /\ config.execTimeout <= 0 => t = config.timeout * Second
        /\ config = [timeout |-> 30, execTimeout |-> 2] => t = 2 * Second
        /\ config = [timeout |-> 30, execTimeout |-> 0] => t = 30 * Second

\* An exec call ran with the global timeout of 30 s, the exec timeout
\* being 0.
C27_Witness ==
    /\ ExecRan
    /\ config = [timeout |-> 30, execTimeout |-> 0]
    /\ toolCall[1].timeout = Some(30 * Second)

\* C28: an exec call fails with the invalid-input-type error, without an
\* output and without a process, exactly when inputs["command"] is absent
\* or no string; with a working_directory that is absent or no string the
\* call is not rejected and its directory is the current directory.
C28_OnlyCommandRejected ==
    (toolCall # None /\ toolCall[1].op = "Execute") =>
        LET c == toolCall[1] IN
        /\ c.command.kind # "string" <=>
                (c.ret.err = ErrInvalidToolInputType /\ c.ret.out = None
                    /\ ~c.ran)
        /\ (c.command.kind = "string" /\ c.workingDirectory.kind # "string")
                => (c.ret.err # ErrInvalidToolInputType /\ c.dir = Some(cwd))

IsAbs(p) == p # <<>> /\ p[1] = PathSeparator

\* C29: the working directory of an exec call is an absolute path that
\* does not end in a separator; it is the current directory for "." and
\* for no working_directory, the join of the current directory and the
\* input for an input that starts with "./" or has no separator, and the
\* input itself when that is an absolute path.
C29_ResolvedAbsolute ==
    ExecRan =>
        LET wd == toolCall[1].workingDirectory
            dir == toolCall[1].dir[1]
        IN
        /\ IsAbs(dir) /\ dir[Len(dir)] # PathSeparator
        /\ (wd.kind = "absent" \/ wd = Str(<<".">>)) => dir = cwd
        /\ (wd.kind = "string" /\ wd.val # <<".">>
                /\ (HasPrefix(wd.val, <<".", PathSeparator>>)
                        \/ ~Contains(wd.val, PathSeparator)))
            => dir = Join(cwd, TrimPrefix(wd.val, <<".", PathSeparator>>))
        /\ (wd.kind = "string" /\ IsAbs(wd.val)) => dir = wd.val

\* What ValidateDefinition requires of a definition.
InputsComplete(def) ==
    \A n \in DOMAIN def.inputs :
        def.inputs[n].type # "" /\ def.inputs[n].description # ""
ExecutableFound(def) == def.executable # "" => def.executable \in OnPath

\* C30: a definition is accepted exactly when it has a display name and a
\* description, each of its inputs has a type and a description, and its
\* executable, if it names one, is on PATH; without a display name that is
\* the error, whatever else is missing, and with a display name but
\* without a description that is the error.
C30_ValidationRules ==
    Validated =>
        LET def == toolCall[1].def
            err == toolCall[1].err
        IN
        /\ err = Nil <=> (def.displayName # "" /\ def.description # ""
                            /\ InputsComplete(def) /\ ExecutableFound(def))
        /\ def.displayName = "" => err.msg = ErrToolMissingDisplayName
        /\ (def.displayName # "" /\ def.description = "")
                => err.msg = ErrToolMissingDescription
        /\ err.msg \in {ErrToolInputMissingType, ErrToolInputMissingDescription,
                        ErrToolExecutableNotFound}
                => (def.displayName # "" /\ def.description # "")
        /\ err.msg = ErrToolExecutableNotFound => InputsComplete(def)

\* A definition that breaks every rule was rejected for its display name.
C30_Witness ==
    /\ Validated
    /\ toolCall[1].def.displayName = "" /\ toolCall[1].def.description = ""
    /\ ~InputsComplete(toolCall[1].def) /\ ~ExecutableFound(toolCall[1].def)
    /\ toolCall[1].err.msg = ErrToolMissingDisplayName

\* A tool has been built, and the names its schema requires.
Built == toolCall # None /\ toolCall[1].op = "New"
Required(schema) == {schema.required[i] : i \in 1..Len(schema.required)}

\* C31: the input schema of every tool has the string parameter "task",
\* required, and the string parameter "working_directory", not required and
\* with the default ".", whatever inputs the tool itself declares.
C31_CommonInputsInSchema ==
    Built =>
        LET schema == toolCall[1].inputSchema IN
        /\ {inputTask, inputWorkingDirectory} \subseteq DOMAIN schema.properties
        /\ schema.properties[inputTask].type = "string"
        /\ inputTask \in Required(schema)
        /\ schema.properties[inputWorkingDirectory].type = "string"
        /\ schema.properties[inputWorkingDirectory].default = "."
        /\ inputWorkingDirectory \notin Required(schema)

\* The tools the Run at level l of the stack converts for its requests.
ToolsOf(l) ==
    IF l = 1 /\ request.live THEN DOMAIN tmTools ELSE stack[l].tools

\* C32: the tool specs of every request are one spec for each tool of the
\* Run's tool set, with the tool's name, description and input schema, and
\* none for an empty set; the Run's tool set and the tools of the registry
\* are what they were before the conversion.
C32_OneSpecPerTool ==
    /\ \A l \in 1..Len(stack) :
        stack[l].req # None =>
            LET specs == stack[l].req[1].tools IN
            /\ BagCardinality(specs) = Cardinality(ToolsOf(l))
            /\ \A n \in ToolsOf(l) :
                CopiesIn([name |-> n,
                          description |-> GetDescription(n),
                          inputSchema |-> GetInputSchema(n)], specs) = 1
            /\ ToolsOf(l) = {} => specs = EmptyBag
            /\ l = 1 => stack[l].tools = request.tools
    /\ tmTools = Put(Put(EmptyTools, ExecToolName, ExecTool),
                     GitToolName, DeclarativeTool(2))

\* A request went out with the specs of the exec tool and of a declarative
\* tool.
C32_Witness ==
    /\ Len(stack) = 1 /\ stack[1].req # None
    /\ BagCardinality(stack[1].req[1].tools) = 2
    /\ {t.name : t \in BagToSet(stack[1].req[1].tools)}
            = {ExecToolName, GitToolName}

\* The two goroutines as they stand.
Goroutines ==
    {RunState(request, stack, mainPc, mainRet, topOutputs), other}

\* The ids of the tool-use blocks of a turn.
ToolUseIds(turn) ==
    {turn.content[i].id : i \in {j \in 1..Len(turn.content) :
                                    turn.content[j].kind = "tool_use"}}

\* The history of a Run is its own: it starts with the Run's task, its
\* assistant turns are the responses to the Run's own requests, in order,
\* and the results of each of its other user turns answer tool uses of the
\* turn before.
OwnHistory(f) ==
    LET m == f.messages
        asst == SelectSeq(m, LAMBDA t : t.role = "assistant")
    IN
    /\ m # <<>> => m[1] = UserTextTurn(f.task)
    /\ Len(asst) <= Len(f.answers)
    /\ \A k \in 1..Len(asst) : asst[k] = AssistantTurn(f.answers[k])
    /\ \A j \in 2..Len(m) :
        m[j].role = "user" =>
            /\ m[j - 1].role = "assistant"
            /\ \A i \in 1..Len(m[j].content) :
                m[j].content[i].id \in ToolUseIds(m[j - 1])

\* C33: with two Runs in progress on one agent, the history of each is
\* built from its own task and the responses to its own requests, and the
\* outputs it holds and returns are the ones its own tool calls returned.
C33_IndependentRuns ==
    \A g \in Goroutines :
        /\ g.stack # <<>> =>
            /\ OwnHistory(g.stack[1])
            /\ Len(g.stack[1].output) <= Len(g.topOutputs)
            /\ g.stack[1].output
                    = SubSeq(g.topOutputs, 1, Len(g.stack[1].output))
            /\ g.stack[1].task = g.request.task
        /\ (g.mainPc \in {"emit", "done"} /\ g.mainRet.err = NoErr)
                => g.mainRet.out = g.topOutputs

\* Both Runs are in progress, each after a turn of its own that ran a
\* command.
C33_Witness ==
    /\ stack # <<>> /\ other.stack # <<>>
    /\ Len(stack[1].messages) = 3 /\ Len(other.stack[1].messages) = 3
    /\ Len(stack[1].output) = 1 /\ Len(other.stack[1].output) = 1

\* The Run on top of the stack has gone through all blocks of a response.
AtTurnEnd(f) == f.pc = "blocks" /\ f.idx > Len(f.resp)

\* C34: a Run returns successfully at the end of a turn that built no tool
\* result and nowhere else, also when the turn had tool uses that were all
\* skipped; after a turn that built a tool result the Run goes back to the
\* model, and its next step is a request to the API.
C34_EndsAtFirstTurnWithoutResults ==
    [][(Running /\ Len(stack') = Depth /\ stack'[Depth] # Top) =>
        LET f == Top
            g == stack'[Depth]
        IN
        /\ AtTurnEnd(f) =>
            IF f.toolResults = <<>>
            THEN g.pc = "ret" /\ g.ret = [out |-> f.output, err |-> NoErr]
            ELSE g.pc = "call" /\ g.calls = f.calls
        /\ (g.pc = "ret" /\ f.pc # "ret" /\ g.ret.err = NoErr)
                => (AtTurnEnd(f) /\ f.toolResults = <<>>)
        /\ (f.pc = "call" /\ f.calls > 0) =>
                /\ apiCalls' = apiCalls + 1
                /\ g.req = Some(BuildRequest(f))
                /\ Len(f.messages) = 2 * f.calls + 1]_vars

\* A Run has returned successfully after its first response, whose tool
\* uses were all skipped.
C34_Witness ==
    \E f \in Frames :
        /\ f.pc = "ret" /\ f.ret.err = NoErr /\ f.calls = 1
        /\ \E i \in 1..Len(f.resp) : f.resp[i].kind = "tool_use"

\* C35: while the nested Run of a declarative tool is in progress, the Run
\* that dispatched the tool stays inside that tool's Execute: it sends no
\* request, calls no tool and its history, its outputs and its tool
\* results stay as they were at the dispatch, until the nested Run returns.
C35_OuterRunWaits ==
    /\ [](\A l \in 1..(Depth - 1) :
            /\ stack[l].pc = "nested"
            /\ stack[l].resp[stack[l].idx].kind = "tool_use"
            /\ stack[l].resp[stack[l].idx].name # ExecToolName
            /\ stack[l].inflight = {stack[l].resp[stack[l].idx].id})
    /\ [][\A l \in 1..(Depth - 1) :
            l < Len(stack') =>
                /\ stack'[l] = stack[l]
                /\ Len(stack') >= Depth => apiCalls' - apiCalls =
                        stack'[Depth].calls - stack[Depth].calls]_vars

\* A nested Run has got a response from the model while the Run that
\* dispatched its tool is where it was.
C35_Witness ==
    /\ Depth = 2 /\ Top.calls = 1 /\ Top.pc = "blocks"
    /\ stack[1].pc = "nested" /\ stack[1].calls = 1 /\ apiCalls = 2

\* The values the consumers have received so far.
Emitted == Len(statusLog) + Len(msgLog) + Len(cmdLog)

\* The channel the goroutine of main is about to send on, if any.
SendsOn(c) ==
    \/ /\ c = "status"
       /\ \/ mainPc = "emit"
          \/ Running /\ Top.pc = "enter"
                /\ PreconditionError(Top.isNil, Top.task) = NoErr
    \/ c = "messages" /\ Running /\ InBlocks /\ Block.kind = "text"
    \/ /\ c = "messages" /\ Running /\ Top.pc = "handle" /\ Top.cur.out # None
       /\ SendsMessage(Top.cur.out[1])
    \/ /\ c = "commands" /\ Running /\ Top.pc = "handle" /\ Top.cur.out # None
       /\ SendsCommand(Top.cur.out[1])

\* C36: a Run does not get past an emission that nobody receives: with no
\* consumer of the status channel a Run with a valid request stays at its
\* Running emission, nothing is emitted and the API is never called; at an
\* emission on a channel without consumer nothing moves; with consumers on
\* all three channels the Run does not stay at an emission forever.
C36_SynchronousEmissions ==
    /\ []((RequestValid /\ "status" \notin readers) =>
            /\ Depth = 1 /\ Top.pc = "enter"
            /\ apiCalls = 0 /\ Emitted = 0)
    /\ [][\A c \in Channels :
            (SendsOn(c) /\ c \notin readers) => UNCHANGED vars]_vars
    /\ readers = Channels => []<>(\A c \in Channels : ~SendsOn(c))

\* With all consumers there, a Run has returned after sending on each of
\* its channels, and main has sent the terminal status.
C36_Witness ==
    /\ readers = Channels /\ mainPc = "done"
    /\ Len(statusLog) >= 2 /\ Len(msgLog) >= 1 /\ Len(cmdLog) >= 1

\* C37: a message carries the caller of the Run that sent it, whether it
\* forwards a text block or a tool's result: the empty caller for the
\* outermost Run, the display name of the declarative tool for the Run that
\* the tool's Execute started.
C37_MessagesCarryCaller ==
    /\ [](\A i \in 1..Len(msgLog) :
            msgLog[i].tool = IF msgLog[i].depth = 1 THEN ""
                             ELSE DisplayName(GitToolName))
    /\ [](\A l \in 1..Depth :
            stack[l].caller = IF l = 1 THEN ""
                              ELSE DisplayName(stack[l].toolName))
    /\ [][msgLog' # msgLog =>
            /\ Len(msgLog') = Len(msgLog) + 1
            /\ msgLog'[Len(msgLog')].tool = Top.caller
            /\ msgLog'[Len(msgLog')].depth = Depth]_vars

\* The nested Run of the git tool has forwarded a text block under the
\* tool's display name.
C37_Witness ==
    /\ Depth = 2 /\ Top.caller = DisplayName(GitToolName)
    /\ \E i \in 1..Len(msgLog) :
        msgLog[i].depth = 2 /\ msgLog[i].tool = DisplayName(GitToolName)

\* The tool-result blocks of a history, in order.
RECURSIVE ResultBlocks(_)
ResultBlocks(m) ==
    IF m = <<>> THEN <<>>
    ELSE LET t == m[Len(m)] IN
         ResultBlocks(SubSeq(m, 1, Len(m) - 1))
            \o SelectSeq(t.content, LAMBDA b : b.kind = "tool_result")

\* A Run is about to return without error.
Succeeded(f) == f.pc = "ret" /\ f.ret.err = NoErr

\* C38: the list a Run returns on success has one output for every
\* tool-result block of its history, in the same order (the block holds
\* what Run took from that output), and for the outermost Run it is the
\* sequence of the outputs its tools returned, in the order of the calls.
C38_ReturnedOutputs ==
    /\ \A f \in Frames :
        Succeeded(f) =>
            LET fed == ResultBlocks(f.messages) IN
            /\ Len(f.ret.out) = Len(fed)
            /\ \A k \in 1..Len(fed) :
                fed[k].content = ResultContent(f.ret.out[k])
    /\ (Depth = 1 /\ Succeeded(Top)) => Top.ret.out = topOutputs

\* The outermost Run returns two different outputs after a turn with two
\* tool uses.
C38_Witness ==
    /\ Depth = 1 /\ Succeeded(Top)
    /\ Len(Top.ret.out) = 2 /\ Top.ret.out[1] # Top.ret.out[2]

\* C39: in the history of every request, each tool-use block of an assistant
\* turn is answered by a tool-result block with its id in the user turn
\* that follows.
C39_EveryToolUseAnswered ==
    \A f \in Frames :
        f.req # None =>
            LET m == f.req[1].messages IN
            \A j \in 1..Len(m) :
                m[j].role = "assistant" =>
                    /\ j < Len(m)
                    /\ m[j + 1].role = "user"
                    /\ ToolUseIds(m[j]) \subseteq
                        {m[j + 1].content[i].id :
                            i \in {k \in 1..Len(m[j + 1].content) :
                                m[j + 1].content[k].kind = "tool_result"}}

\* C40: the error flag of every tool-result block is the IsError of the
\* tool output it was built from, whichever tool returned the output (the
\* results of the turn in progress are built from the last outputs of the
\* output list, one each).
C40_ResultFlagIsOutputFlag ==
    \A f \in Frames :
        /\ Len(f.toolResults) <= Len(f.output)
        /\ \A k \in 1..Len(f.toolResults) :
            f.toolResults[k].isError =
                f.output[Len(f.output) - Len(f.toolResults) + k].isError

====
